---- MODULE Spec2Model ----
(***************************************************************************)
(* State-machine model of the mpegts-io transport-stream parser:           *)
(* MpegTsParser (src/src/lib.rs), payload-unit reassembly                  *)
(* (src/src/payload_unit.rs), the PSI and PES decoders (src/src/psi.rs,    *)
(* src/src/pes.rs), the slice reader (src/src/slice_reader.rs) and the     *)
(* BDAV wrapper (src/src/bdav/mod.rs), with the PG and IG segment decoder  *)
(* (src/src/bdav/pg.rs) and the MObj instruction codec                     *)
(* (src/src/bdav/mobj.rs).                                                 *)
(*                                                                         *)
(* Bytes are integers 0..255, slices are sequences of bytes.  A fallible   *)
(* call returns a record with ok = TRUE and its value, or ok = FALSE and   *)
(* err, the Error {location, details} of lib.rs.                           *)
(***************************************************************************)
EXTENDS Integers, Sequences, FiniteSets, TLC

(***************************************************************************)
(* overflow_checks: whether the build panics on integer overflow (cargo's  *)
(*     debug profile) or wraps (the release profile); fixed for a run.     *)
(* pending_payload_units, known_pmt_pids: the fields of the MpegTsParser   *)
(*     the caller feeds 188-byte packets to.                               *)
(* packet, result: the packet of the last parse call and what it returned. *)
(* pending_before, known_before: the parser's fields before that call.     *)
(* panicked: a parse call panicked; the run is over.                       *)
(* bdav_packet, bdav_inner, bdav_result, base_inner, base_result: a        *)
(*     BdavParser fed 192-byte packets and an MpegTsParser fed the         *)
(*     trailing 188 bytes of each.                                         *)
(* app_parser_storage: the BdavParserStorage of a parser whose PG units    *)
(*     are finished one after the other.                                   *)
(* pg_data, pg_result: the unit data of the last PgSegmentData::finish and *)
(*     what it returned; storage_before: the storage before that call.     *)
(* pg_fed: per fragment key, the length announced by the first fragment    *)
(*     and the bytes the fragments accepted since then carried.            *)
(* mobj_text: an assembly string; mobj_cmd: what MObjCmd::assemble         *)
(*     returned for it; mobj_formatted: the command formatted back to      *)
(*     text; mobj_reassembled: what assembling that text returned.         *)
(* cmd_bytes: the bytes of a reader handed to MObjCmd::parse; cmd_parsed:  *)
(*     what it returned and the reader it left; cmd_formatted: the         *)
(*     returned command formatted to text.                                 *)
(* rd_parent: a SliceReader over a slice; rd_sub: the sub reader last      *)
(*     taken from it; rd_call, rd_ret: the last call on one of the two and *)
(*     what it returned; rd_parent_before, rd_sub_before: the readers      *)
(*     before that call.                                                   *)
(***************************************************************************)
VARIABLES overflow_checks, pending_payload_units, known_pmt_pids, packet, result,
          pending_before, known_before, panicked,
          bdav_packet, bdav_inner, bdav_result, base_inner, base_result,
          app_parser_storage, pg_data, pg_result, storage_before, pg_fed,
          mobj_text, mobj_cmd, mobj_formatted, mobj_reassembled,
          cmd_bytes, cmd_parsed, cmd_formatted,
          rd_parent, rd_sub, rd_call, rd_ret, rd_parent_before, rd_sub_before

\* the variables of the transport-stream and BDAV parsers
ts_vars == <<overflow_checks, pending_payload_units, known_pmt_pids, packet, result,
             pending_before, known_before, panicked,
             bdav_packet, bdav_inner, bdav_result, base_inner, base_result>>

\* the variables of the PG segment decoder
pg_vars == <<app_parser_storage, pg_data, pg_result, storage_before, pg_fed>>

\* the variables of the MObj codec
mobj_vars == <<mobj_text, mobj_cmd, mobj_formatted, mobj_reassembled>>

\* the variables of the MObj bytecode parser
cmd_vars == <<cmd_bytes, cmd_parsed, cmd_formatted>>

\* the variables of the slice readers
reader_vars == <<rd_parent, rd_sub, rd_call, rd_ret, rd_parent_before, rd_sub_before>>

vars == <<ts_vars, pg_vars, mobj_vars, cmd_vars, reader_vars>>

(***************************************************************************)
(* Bit helpers on bytes.                                                   *)
(***************************************************************************)
Pow2(n) == 2 ^ n

\* bits hi..lo (0 = least significant) of the byte b
Bits(b, hi, lo) == (b \div Pow2(lo)) % Pow2(hi - lo + 1)

BitSet(b, n) == Bits(b, n, n) = 1

\* the set of positions (0 = least significant) of the 1 bits of a byte
ByteBits(b) == {i \in 0..7 : BitSet(b, i)}

\* big-endian u16 of a two byte slice: u16::from_be_bytes
from_be_bytes2(s) == s[1] * 256 + s[2]

(***************************************************************************)
(* Error and Result.                                                       *)
(***************************************************************************)
MkError(location, details, arg) ==
    [location |-> location, details |-> details, arg |-> arg]

Err(e) == [ok |-> FALSE, err |-> e]

(***************************************************************************)
(* SliceReader: a slice and the absolute location of its first byte.       *)
(***************************************************************************)
SliceReader_new(slice) == [slice |-> slice, location |-> 0]

make_error(reader, details) == MkError(reader.location, details, 0)

remaining_len(reader) == Len(reader.slice)

\* read: the first `length` bytes and the advanced reader, or PacketOverrun
read(reader, length) ==
    IF length > Len(reader.slice)
    THEN Err(MkError(reader.location, "PacketOverrun", length))
    ELSE [ok |-> TRUE,
          val |-> SubSeq(reader.slice, 1, length),
          reader |-> [slice |-> SubSeq(reader.slice, length + 1, Len(reader.slice)),
                      location |-> reader.location + length]]

skip(reader, length) ==
    IF length > Len(reader.slice)
    THEN Err(MkError(reader.location, "PacketOverrun", length))
    ELSE [ok |-> TRUE,
          reader |-> [slice |-> SubSeq(reader.slice, length + 1, Len(reader.slice)),
                      location |-> reader.location + length]]

read_to_end(reader) == read(reader, Len(reader.slice))

\* peek: the first `length` bytes, the reader is left as it is
peek(reader, length) ==
    IF length > Len(reader.slice)
    THEN Err(MkError(reader.location, "PacketOverrun", length))
    ELSE [ok |-> TRUE, val |-> SubSeq(reader.slice, 1, length), reader |-> reader]

\* new_sub_reader as if the sub reader counted its offsets from its own
\* first byte
new_sub_reader_from_zero(reader, length) ==
    LET r == read(reader, length)
    IN  IF ~r.ok THEN r
        ELSE [ok |-> TRUE,
              sub |-> [slice |-> r.val, location |-> 0],
              reader |-> r.reader]

\* new_sub_reader: sub is the view of the next `length` bytes, based at the
\* parent's location; reader is the advanced parent
new_sub_reader(reader, length) ==
    LET r == read(reader, length)
    IN  IF ~r.ok THEN r
        ELSE [ok |-> TRUE,
              sub |-> [slice |-> r.val, location |-> reader.location],
              reader |-> r.reader]

(***************************************************************************)
(* CRC-32/MPEG-2 (crc crate, CRC_32_MPEG_2): polynomial 0x04C11DB7,        *)
(* initial value 0xFFFFFFFF, not reflected, no final xor.  The 32-bit      *)
(* register is the set of the positions of its 1 bits (0 = least           *)
(* significant), so xor is the symmetric difference.                       *)
(***************************************************************************)
Xor(A, B) == (A \ B) \cup (B \ A)

\* 0x04C11DB7 = 0000 0100 1100 0001 0001 1101 1011 0111
CrcPoly == {0, 1, 2, 4, 5, 7, 8, 10, 11, 12, 16, 22, 23, 26}

CrcInit == 0..31

ShiftLeft1(reg) == {i + 1 : i \in {j \in reg : j < 31}}

CrcRound(reg) ==
    IF 31 \in reg THEN Xor(ShiftLeft1(reg), CrcPoly) ELSE ShiftLeft1(reg)

\* the bits of every byte, and the number of every set of bits of a byte
ByteBitsOf == [b \in 0..255 |-> ByteBits(b)]

ByteOfBits == [S \in SUBSET (0..7) |-> CHOOSE b \in 0..255 : ByteBitsOf[b] = S]

\* n shift and xor rounds; each round's register is bound before the next
\* round reads it
RECURSIVE CrcRounds(_, _)
CrcRounds(reg, n) ==
    IF n = 0 THEN reg
    ELSE CHOOSE out \in {CrcRounds(next, n - 1) : next \in {CrcRound(reg)}} : TRUE

\* the crate's lookup table: entry b is the register after the 8 shift and
\* xor rounds on b in the top byte
CrcTable ==
    [b \in 0..255 |-> CrcRounds({i + 24 : i \in ByteBitsOf[b]}, 8)]

\* crc = table[(crc >> 24) ^ byte] ^ (crc << 8)
CrcByte(reg, b) ==
    LET top == {i - 24 : i \in {j \in reg : j >= 24}}
    IN  Xor(CrcTable[ByteOfBits[Xor(top, ByteBitsOf[b])]],
            {i + 8 : i \in {j \in reg : j < 24}})

\* Digest::update, byte by byte from byte i on; each byte's register is
\* bound before the next byte reads it
RECURSIVE CrcUpdateFrom(_, _, _)
CrcUpdateFrom(reg, bytes, i) ==
    IF i > Len(bytes) THEN reg
    ELSE CHOOSE out \in {CrcUpdateFrom(next, bytes, i + 1) :
                            next \in {CrcByte(reg, bytes[i])}} : TRUE

CrcUpdate(reg, bytes) ==
    CHOOSE out \in {CrcUpdateFrom(r, b, 1) : r \in {reg}, b \in {bytes}} : TRUE

\* the register of a big-endian u32: SliceReader::read_be_u32
be_u32_bits(s) ==
    {i + 24 : i \in ByteBitsOf[s[1]]} \cup {i + 16 : i \in ByteBitsOf[s[2]]}
        \cup {i + 8 : i \in ByteBitsOf[s[3]]} \cup ByteBitsOf[s[4]]

\* the four big-endian bytes of a register
RegByte(reg, k) == ByteOfBits[{i \in 0..7 : (i + 8 * k) \in reg}]

RegBytes(reg) == <<RegByte(reg, 3), RegByte(reg, 2), RegByte(reg, 1), RegByte(reg, 0)>>

(***************************************************************************)
(* Option, Result and the panic of a failed assertion, an arithmetic       *)
(* overflow or an out-of-range slice index.                                *)
(***************************************************************************)
None == [some |-> FALSE]

Some(v) == [some |-> TRUE, val |-> v]

Ok(v) == [ok |-> TRUE, val |-> v]

Panic == Err(MkError(0, "panic", 0))

IsPanic(ret) == ~ret.ok /\ ret.err.details = "panic"

(***************************************************************************)
(* The bit-packed headers (modular_bitfield_msb: first field in the most   *)
(* significant bits of the first byte).                                    *)
(***************************************************************************)
\* lib.rs PacketHeader, from 4 bytes
PacketHeader(b) ==
    [sync_byte |-> b[1],
     tei |-> BitSet(b[2], 7),
     pusi |-> BitSet(b[2], 6),
     priority |-> BitSet(b[2], 5),
     pid |-> Bits(b[2], 4, 0) * 256 + b[3],
     tsc |-> Bits(b[4], 7, 6),
     has_adaptation_field |-> BitSet(b[4], 5),
     has_payload |-> BitSet(b[4], 4),
     continuity_counter |-> Bits(b[4], 3, 0)]

\* lib.rs AdaptationFieldHeader, from 2 bytes
AdaptationFieldHeader(b) ==
    [length |-> b[1],
     discontinuity |-> BitSet(b[2], 7),
     random_access |-> BitSet(b[2], 6),
     priority |-> BitSet(b[2], 5),
     has_pcr |-> BitSet(b[2], 4),
     has_opcr |-> BitSet(b[2], 3),
     has_splice_countdown |-> BitSet(b[2], 2),
     has_transport_private_data |-> BitSet(b[2], 1),
     has_adaptation_field_extension |-> BitSet(b[2], 0)]

\* psi.rs PsiHeader, from 3 bytes
PsiHeader(b) ==
    [table_id |-> b[1],
     section_syntax_indicator |-> BitSet(b[2], 7),
     private_bit |-> BitSet(b[2], 6),
     reserved_bits |-> Bits(b[2], 5, 4),
     section_length |-> Bits(b[2], 1, 0) * 256 + b[3]]

\* psi.rs PsiTableSyntax, from 5 bytes
PsiTableSyntax(b) ==
    [table_id_extension |-> b[1] * 256 + b[2],
     reserved_bits |-> Bits(b[3], 7, 6),
     version |-> Bits(b[3], 5, 1),
     current_next_indicator |-> BitSet(b[3], 0),
     section_num |-> b[4],
     last_section_num |-> b[5]]

\* psi.rs PatEntry, from 4 bytes
PatEntry(b) ==
    [program_num |-> b[1] * 256 + b[2],
     reserved |-> Bits(b[3], 7, 5),
     program_map_pid |-> Bits(b[3], 4, 0) * 256 + b[4]]

\* psi.rs PmtHeader, from 4 bytes
PmtHeader(b) ==
    [reserved |-> Bits(b[1], 7, 5),
     pcr_pid |-> Bits(b[1], 4, 0) * 256 + b[2],
     reserved2 |-> Bits(b[3], 7, 4),
     program_info_length |-> Bits(b[3], 1, 0) * 256 + b[4]]

\* psi.rs ElementaryStreamInfoHeader, from 5 bytes
ElementaryStreamInfoHeader(b) ==
    [stream_type |-> b[1],
     reserved |-> Bits(b[2], 7, 5),
     elementary_pid |-> Bits(b[2], 4, 0) * 256 + b[3],
     reserved2 |-> Bits(b[4], 7, 4),
     es_info_length |-> Bits(b[4], 1, 0) * 256 + b[5]]

\* pes.rs PesHeader, from 6 bytes
PesHeader(b) ==
    [start_code |-> (b[1] * 256 + b[2]) * 256 + b[3],
     stream_id |-> b[4],
     packet_length |-> b[5] * 256 + b[6]]

\* pes.rs PesOptionalHeader, from 3 bytes
PesOptionalHeader(b) ==
    [marker_bits |-> Bits(b[1], 7, 6),
     scrambling_control |-> Bits(b[1], 5, 4),
     priority |-> BitSet(b[1], 3),
     data_alignment_indicator |-> BitSet(b[1], 2),
     copyright |-> BitSet(b[1], 1),
     original |-> BitSet(b[1], 0),
     has_pts |-> BitSet(b[2], 7),
     has_dts |-> BitSet(b[2], 6),
     escr |-> BitSet(b[2], 5),
     es_rate |-> BitSet(b[2], 4),
     dsm_trick_mode |-> BitSet(b[2], 3),
     has_additional_copy_info |-> BitSet(b[2], 2),
     has_crc |-> BitSet(b[2], 1),
     has_extension |-> BitSet(b[2], 0),
     additional_header_length |-> b[3]]

\* bdav/mod.rs BdavPacketHeader, from 4 bytes: cpi (2 bits), timestamp (30 bits)
BdavPacketHeader(b) ==
    [cpi |-> Bits(b[1], 7, 6),
     timestamp |-> ((Bits(b[1], 5, 0) * 256 + b[2]) * 256 + b[3]) * 256 + b[4]]

is_pes(b) == b[1] = 0 /\ b[2] = 0 /\ b[3] = 1

\* The 33-bit timestamp of 5 bytes.  hi holds bits 32..30, ((b0 & 0x0E) << 29),
\* lo the 30 bits below: the value is hi * 2^30 + lo.
parse_timestamp(b) ==
    [hi |-> Bits(b[1], 3, 1),
     lo |-> ((b[2] * 128 + Bits(b[3], 7, 1)) * 256 + b[4]) * 128 + Bits(b[5], 7, 1)]

\* The PCR of 6 bytes.  The 33-bit base is base_hi * 2^25 + base_lo
\* (base_hi = b0, the bits 32..25).
parse_pcr(b) ==
    [base_hi |-> b[1],
     base_lo |-> ((b[2] * 256 + b[3]) * 256 + b[4]) * 2 + Bits(b[5], 7, 7),
     extension |-> Bits(b[5], 0, 0) * 256 + b[6]]

(***************************************************************************)
(* MpegTsParser::read_adaptation_field (lib.rs), one operator per step of  *)
(* the function; each step gets the values the steps before it have read.  *)
(* reader is the packet's reader, a_reader the sub reader over the field.  *)
(* The result is [ok, val, reader] or an Err.                              *)
(***************************************************************************)
read_adaptation_field_opcr(reader, a_reader, header, pcr) ==
    IF header.has_opcr
    THEN IF remaining_len(a_reader) < 6
         THEN Err(make_error(reader, "BadAdaptationHeader"))
         ELSE [ok |-> TRUE,
               val |-> [header |-> header, pcr |-> pcr,
                        opcr |-> Some(parse_pcr(read(a_reader, 6).val))],
               reader |-> reader]
    ELSE [ok |-> TRUE, val |-> [header |-> header, pcr |-> pcr, opcr |-> None],
          reader |-> reader]

read_adaptation_field_pcr_read(reader, pcr_bytes, header) ==
    read_adaptation_field_opcr(reader, pcr_bytes.reader, header,
                               Some(parse_pcr(pcr_bytes.val)))

read_adaptation_field_pcr(reader, a_reader, header) ==
    IF header.has_pcr
    THEN IF remaining_len(a_reader) < 6
         THEN Err(make_error(reader, "BadAdaptationHeader"))
         ELSE read_adaptation_field_pcr_read(reader, read(a_reader, 6), header)
    ELSE read_adaptation_field_opcr(reader, a_reader, header, None)

read_adaptation_field_sub(a, header) ==
    IF ~a.ok THEN a ELSE read_adaptation_field_pcr(a.reader, a.sub, header)

\* the length check as if the sub reader spanned `length` bytes behind the
\* flag byte
read_adaptation_field_length_behind_flags(reader, header) ==
    IF ~(header.length >= 1 /\ header.length <= 183)
    THEN Err(make_error(reader, "BadAdaptationHeader"))
    ELSE read_adaptation_field_sub(new_sub_reader(reader, header.length), header)

read_adaptation_field_length(reader, header) ==
    IF ~(header.length >= 1 /\ header.length <= 183)
    THEN Err(make_error(reader, "BadAdaptationHeader"))
    ELSE read_adaptation_field_sub(new_sub_reader(reader, header.length - 1), header)

read_adaptation_field_header(h) ==
    IF ~h.ok THEN h
    ELSE read_adaptation_field_length(h.reader, AdaptationFieldHeader(h.val))

read_adaptation_field(reader0) == read_adaptation_field_header(read(reader0, 2))

(***************************************************************************)
(* The parser state P is the record [pending_payload_units, known_pmt_pids]*)
(* of MpegTsParser: pending_payload_units is a function whose domain is    *)
(* the set of PIDs with an entry, known_pmt_pids a set of PIDs.  A parser  *)
(* method returns [P |-> the state it leaves, ret |-> its Result].         *)
(***************************************************************************)
contains_key(map, pid) == pid \in DOMAIN map

remove(map, pid) == [q \in DOMAIN map \ {pid} |-> map[q]]

insert_alone(map, pid, builder) == [q \in {pid} |-> builder]

insert(map, pid, builder) ==
    [q \in DOMAIN map \cup {pid} |-> IF q = pid THEN builder ELSE map[q]]

EmptyMap == [q \in {} |-> 0]

(***************************************************************************)
(* AppDetails::new_pes_unit_data: DefaultAppDetails (lib.rs) has no unit   *)
(* object of its own, DefaultBdavAppDetails (bdav/mod.rs) has one for the  *)
(* graphics PIDs.  start_pes substitutes RawPesData for None.              *)
(***************************************************************************)
IsPgPid(pid) ==
    \/ pid >= 4608 /\ pid <= 4639      \* 0x1200..=0x121f
    \/ pid >= 5120 /\ pid <= 5151      \* 0x1400..=0x141f
    \/ pid = 6144                      \* 0x1800

new_pes_unit_data(app, pid, unit_length) ==
    IF app = "DefaultBdavAppDetails" /\ IsPgPid(pid)
    THEN Some([obj |-> "PgSegmentData", bytes |-> << >>])
    ELSE None

RawPesData_new(capacity) == [obj |-> "RawPesData", bytes |-> << >>]

\* PesUnitObject::finish of RawPesData: nothing to do
PesUnitObject_finish(data, pid, P) ==
    CASE data.obj = "RawPesData" -> [P |-> P, ret |-> Ok(data)]

(***************************************************************************)
(* PsiBuilder (psi.rs).                                                    *)
(***************************************************************************)
PsiBuilder_new(capacity, header, table_syntax, hasher) ==
    [kind |-> "Psi", header |-> header, table_syntax |-> table_syntax,
     data |-> << >>, hasher |-> hasher]

PayloadPsi(unit, data) ==
    [kind |-> "Psi", header |-> unit.header, table_syntax |-> unit.table_syntax,
     data |-> data]

finish_substitute_data(unit, data) == Ok(PayloadPsi(unit, data))

finish_keep_raw_data(unit) ==
    Ok(PayloadPsi(unit, [variant |-> "Raw", bytes |-> unit.data]))

\* the PatEntry list of the table body: one entry per 4 bytes while at
\* least 4 bytes remain
RECURSIVE PatEntries(_)
PatEntries(slice) ==
    IF Len(slice) >= 4
    THEN <<PatEntry(SubSeq(slice, 1, 4))>> \o PatEntries(SubSeq(slice, 5, Len(slice)))
    ELSE << >>

finish_pat_drops_pending(P, unit) ==
    LET pat_vec == PatEntries(unit.data)
    IN  [P |-> [P EXCEPT !.known_pmt_pids =
                    {pat_vec[i].program_map_pid : i \in 1..Len(pat_vec)},
                         !.pending_payload_units = EmptyMap],
         ret |-> finish_substitute_data(unit, [variant |-> "Pat", entries |-> pat_vec])]

\* finish_pat clears known_pmt_pids and inserts the program_map_pid of
\* every entry it reads
finish_pat(P, unit) ==
    LET pat_vec == PatEntries(unit.data)
    IN  [P |-> [P EXCEPT !.known_pmt_pids =
                    {pat_vec[i].program_map_pid : i \in 1..Len(pat_vec)}],
         ret |-> finish_substitute_data(unit, [variant |-> "Pat", entries |-> pat_vec])]

\* Descriptor::new_from_reader: tag, length, data; [ok, val, reader] or Err
Descriptor_data(tag, data) ==
    IF ~data.ok THEN data
    ELSE [ok |-> TRUE, val |-> [tag |-> tag, data |-> data.val],
          reader |-> data.reader]

Descriptor_len(tag, len) ==
    IF ~len.ok THEN len ELSE Descriptor_data(tag, read(len.reader, len.val[1]))

Descriptor_tag(tag) ==
    IF ~tag.ok THEN tag ELSE Descriptor_len(tag.val[1], read(tag.reader, 1))

Descriptor_new_from_reader(reader) == Descriptor_tag(read(reader, 1))

\* while reader.remaining_len() > 0 { push(Descriptor::new_from_reader) }
RECURSIVE ReadDescriptors(_, _)
ReadDescriptors_push(descriptor, vec) ==
    IF ~descriptor.ok THEN descriptor
    ELSE ReadDescriptors(descriptor.reader, Append(vec, descriptor.val))

ReadDescriptors(reader, vec) ==
    IF remaining_len(reader) = 0 THEN Ok(vec)
    ELSE ReadDescriptors_push(Descriptor_new_from_reader(reader), vec)

\* the elementary stream loop of finish_pmt
RECURSIVE ReadEsInfos(_, _)
ReadEsInfos_push(reader, es_header, descs, vec) ==
    IF ~descs.ok THEN descs
    ELSE ReadEsInfos(reader, Append(vec, [header |-> es_header,
                                          es_descriptors |-> descs.val]))

ReadEsInfos_sub(es_header, es_reader, vec) ==
    IF ~es_reader.ok THEN es_reader
    ELSE ReadEsInfos_push(es_reader.reader, es_header,
                          ReadDescriptors(es_reader.sub, << >>), vec)

ReadEsInfos_header(h, es_header, vec) ==
    ReadEsInfos_sub(es_header, new_sub_reader(h.reader, es_header.es_info_length), vec)

ReadEsInfos_read(h, vec) ==
    IF ~h.ok THEN h ELSE ReadEsInfos_header(h, ElementaryStreamInfoHeader(h.val), vec)

ReadEsInfos(reader, vec) ==
    IF remaining_len(reader) = 0 THEN Ok(vec)
    ELSE ReadEsInfos_read(read(reader, 5), vec)

\* PsiBuilder::finish_pmt: the PmtHeader, the program descriptors in their
\* sub reader, the elementary streams in what is left
finish_pmt_es(P, unit, header, descs, es) ==
    IF ~es.ok THEN [P |-> P, ret |-> es]
    ELSE [P |-> P,
          ret |-> finish_substitute_data(unit,
                     [variant |-> "Pmt", header |-> header,
                      program_descriptors |-> descs.val,
                      es_infos |-> es.val])]

finish_pmt_descs(P, unit, header, reader, descs) ==
    IF ~descs.ok THEN [P |-> P, ret |-> descs]
    ELSE finish_pmt_es(P, unit, header, descs, ReadEsInfos(reader, << >>))

finish_pmt_sub(P, unit, header, info_reader) ==
    IF ~info_reader.ok THEN [P |-> P, ret |-> info_reader]
    ELSE finish_pmt_descs(P, unit, header, info_reader.reader,
                          ReadDescriptors(info_reader.sub, << >>))

finish_pmt_header(P, unit, h, header) ==
    finish_pmt_sub(P, unit, header,
                   new_sub_reader(h.reader, header.program_info_length))

finish_pmt_read(P, unit, h) ==
    IF ~h.ok THEN [P |-> P, ret |-> h]
    ELSE finish_pmt_header(P, unit, h, PmtHeader(h.val))

finish_pmt(P, unit) == finish_pmt_read(P, unit, read(SliceReader_new(unit.data), 4))

PsiBuilder_finish_pat_first(unit, pid, P) ==
    IF Len(unit.data) < 4 THEN [P |-> P, ret |-> Panic]
    ELSE
    LET len_minus_crc == Len(unit.data) - 4
        actual_hash == CrcUpdate(unit.hasher, SubSeq(unit.data, 1, len_minus_crc))
        expected_hash ==
            be_u32_bits(SubSeq(unit.data, len_minus_crc + 1, Len(unit.data)))
        truncated == [unit EXCEPT !.data = SubSeq(unit.data, 1, len_minus_crc)]
    IN  IF expected_hash # actual_hash
        THEN [P |-> P, ret |-> Err(MkError(0, "PsiCrcMismatch", 0))]
        ELSE IF pid = 0 /\ truncated.header.table_id = 0
        THEN finish_pat(P, truncated)
        ELSE IF truncated.header.private_bit
        THEN [P |-> P, ret |-> finish_keep_raw_data(truncated)]
        ELSE IF pid \in P.known_pmt_pids
        THEN finish_pmt(P, truncated)
        ELSE [P |-> P, ret |-> finish_keep_raw_data(truncated)]

\* PayloadUnitObject::finish of PsiBuilder.  data.len() - 4 on a body of
\* fewer than 4 bytes overflows usize: a panic where overflow checks are
\* on, and where they are off the wrapped length is then out of range as
\* the slice index of &self.data[..len_minus_crc], a panic as well.
PsiBuilder_finish(unit, pid, P) ==
    IF Len(unit.data) < 4 THEN [P |-> P, ret |-> Panic]
    ELSE
    LET len_minus_crc == Len(unit.data) - 4
        actual_hash == CrcUpdate(unit.hasher, SubSeq(unit.data, 1, len_minus_crc))
        expected_hash ==
            be_u32_bits(SubSeq(unit.data, len_minus_crc + 1, Len(unit.data)))
        truncated == [unit EXCEPT !.data = SubSeq(unit.data, 1, len_minus_crc)]
    IN  IF expected_hash # actual_hash
        THEN [P |-> P, ret |-> Err(MkError(0, "PsiCrcMismatch", 0))]
        ELSE IF truncated.header.private_bit
        THEN [P |-> P, ret |-> finish_keep_raw_data(truncated)]
        ELSE IF pid = 0 /\ truncated.header.table_id = 0
        THEN finish_pat(P, truncated)
        ELSE IF pid \in P.known_pmt_pids
        THEN finish_pmt(P, truncated)
        ELSE [P |-> P, ret |-> finish_keep_raw_data(truncated)]

\* PayloadUnitObject::finish of Pes
Pes_finish(unit, pid, P) ==
    LET f == PesUnitObject_finish(unit.data, pid, P)
    IN  IF ~f.ret.ok THEN f
        ELSE [P |-> f.P, ret |-> Ok([unit EXCEPT !.data = f.ret.val])]

(***************************************************************************)
(* PayloadUnitBuilder (payload_unit.rs): [unit, remaining].                *)
(***************************************************************************)
PayloadUnitBuilder_new(obj, obj_length) == [unit |-> obj, remaining |-> obj_length]

\* PayloadUnitObject::extend_from_slice of PsiBuilder and of Pes
extend_from_slice(unit, slice) ==
    IF unit.kind = "Psi" THEN [unit EXCEPT !.data = @ \o slice]
    ELSE [unit EXCEPT !.data.bytes = @ \o slice]

\* append without its bound: every byte left in the packet goes into the
\* unit, those beyond the declared length included
append_unbounded(builder, reader) ==
    LET r == read_to_end(reader)
        remaining == builder.remaining - remaining_len(reader)
    IN  [ok |-> TRUE, val |-> remaining <= 0,
         builder |-> [unit |-> extend_from_slice(builder.unit, r.val),
                      remaining |-> IF remaining < 0 THEN 0 ELSE remaining],
         reader |-> r.reader]

\* append: val tells whether the unit is complete; builder and reader are
\* the builder and the reader as append leaves them
append(builder, reader) ==
    IF remaining_len(reader) <= builder.remaining
    THEN LET r == read_to_end(reader)
             remaining == builder.remaining - remaining_len(reader)
         IN  [ok |-> TRUE, val |-> remaining = 0,
              builder |-> [unit |-> extend_from_slice(builder.unit, r.val),
                           remaining |-> remaining],
              reader |-> r.reader]
    ELSE LET r == read(reader, builder.remaining)
         IN  [ok |-> TRUE, val |-> TRUE,
              builder |-> [unit |-> extend_from_slice(builder.unit, r.val),
                           remaining |-> 0],
              reader |-> r.reader]

\* PayloadUnitBuilder::finish: assert_eq!(self.remaining, 0), then the
\* unit's finish
finish(builder, pid, P) ==
    IF builder.remaining # 0 THEN [P |-> P, ret |-> Panic]
    ELSE IF builder.unit.kind = "Psi" THEN PsiBuilder_finish(builder.unit, pid, P)
    ELSE Pes_finish(builder.unit, pid, P)

pending(builder) ==
    IF builder.unit.kind = "Psi" THEN Ok([kind |-> "PsiPending"])
    ELSE Ok([kind |-> "PesPending"])

start_payload_unit(P, obj, length, pid, reader) ==
    LET builder == PayloadUnitBuilder_new(obj, length)
        a == append(builder, reader)
    IN  IF a.val THEN finish(a.builder, pid, P)
        ELSE [P |-> [P EXCEPT !.pending_payload_units = insert(@, pid, a.builder)],
              ret |-> pending(a.builder)]

\* continue_payload_unit: append works on the entry in the map; a complete
\* entry is removed before its finish runs.  No entry: Payload::Unknown.
continue_payload_unit_keeps_entry(P, pid, reader) ==
    IF contains_key(P.pending_payload_units, pid)
    THEN LET a == append(P.pending_payload_units[pid], reader)
         IN  IF a.val
             THEN finish(a.builder, pid,
                         [P EXCEPT !.pending_payload_units[pid] = a.builder])
             ELSE [P |-> [P EXCEPT !.pending_payload_units[pid] = a.builder],
                   ret |-> pending(a.builder)]
    ELSE [P |-> P, ret |-> Ok([kind |-> "Unknown"])]

continue_payload_unit(P, pid, reader) ==
    IF contains_key(P.pending_payload_units, pid)
    THEN LET a == append(P.pending_payload_units[pid], reader)
         IN  IF a.val
             THEN finish(a.builder, pid,
                         [P EXCEPT !.pending_payload_units = remove(@, pid)])
             ELSE [P |-> [P EXCEPT !.pending_payload_units[pid] = a.builder],
                   ret |-> pending(a.builder)]
    ELSE [P |-> P, ret |-> Ok([kind |-> "Unknown"])]

(***************************************************************************)
(* MpegTsParser::start_psi (psi.rs), one operator per step: the pointer    *)
(* field and its filler, the 3-byte header, the 5-byte table syntax, the   *)
(* table length.                                                           *)
(***************************************************************************)
start_psi_table(P, pid, reader, psi_header, psi_table_syntax, hasher, table_length) ==
    IF table_length < 4
    THEN [P |-> P, ret |-> Err(make_error(reader, "BadPsiHeader"))]
    ELSE start_payload_unit(P,
             PsiBuilder_new(table_length, psi_header, Some(psi_table_syntax), hasher),
             table_length, pid, reader)

\* (section_length - 5) as usize is a u16 subtraction: below 5 it panics
\* where overflow checks are on and wraps modulo 2^16 where they are off
start_psi_syntax(P, pid, tb, psi_header, hasher) ==
    IF psi_header.section_length < 5 /\ overflow_checks
    THEN [P |-> P, ret |-> Panic]
    ELSE start_psi_table(P, pid, tb.reader, psi_header, PsiTableSyntax(tb.val),
                         CrcUpdate(hasher, tb.val),
                         IF psi_header.section_length >= 5
                         THEN psi_header.section_length - 5
                         ELSE psi_header.section_length - 5 + 65536)

start_psi_section(P, pid, reader, psi_header, hasher) ==
    IF psi_header.section_length > 0
    THEN IF remaining_len(reader) < 5
         THEN [P |-> P, ret |-> Err(make_error(reader, "BadPsiHeader"))]
         ELSE start_psi_syntax(P, pid, read(reader, 5), psi_header, hasher)
    ELSE PsiBuilder_finish(PsiBuilder_new(0, psi_header, None, hasher), pid, P)

start_psi_header(P, pid, hb) ==
    start_psi_section(P, pid, hb.reader, PsiHeader(hb.val), CrcUpdate(CrcInit, hb.val))

start_psi_filler(P, pid, reader) ==
    IF remaining_len(reader) < 3
    THEN [P |-> P, ret |-> Err(make_error(reader, "BadPsiHeader"))]
    ELSE start_psi_header(P, pid, read(reader, 3))

start_psi_pointer(P, pid, pf) ==
    IF remaining_len(pf.reader) < pf.val[1]
    THEN [P |-> P, ret |-> Err(make_error(pf.reader, "BadPsiHeader"))]
    ELSE start_psi_filler(P, pid, skip(pf.reader, pf.val[1]).reader)

start_psi(P, pid, reader0) ==
    IF remaining_len(reader0) < 1
    THEN [P |-> P, ret |-> Err(make_error(reader0, "BadPsiHeader"))]
    ELSE start_psi_pointer(P, pid, read(reader0, 1))

(***************************************************************************)
(* MpegTsParser::start_pes (pes.rs), one operator per step: the 6-byte     *)
(* header, the optional header with its sub reader o_reader, PTS and DTS,  *)
(* the unit.  pes_length - optional_length is a usize subtraction: below   *)
(* zero it panics where overflow checks are on; where they are off it      *)
(* wraps to a length near 2^64 and the allocation of the unit object,      *)
(* Vec::with_capacity(unit_length), panics with a capacity overflow.       *)
(***************************************************************************)
start_pes_data(app_data, unit_length) ==
    IF app_data.some THEN app_data.val ELSE RawPesData_new(unit_length)

start_pes_unit(P, pid, reader, header, optional_header, pts, dts, unit_length) ==
    IF unit_length < 0 THEN [P |-> P, ret |-> Panic]
    ELSE start_payload_unit(P,
             [kind |-> "Pes", header |-> header,
              optional_header |-> optional_header,
              pts |-> pts, dts |-> dts,
              data |-> start_pes_data(new_pes_unit_data(P.app, pid, unit_length),
                                      unit_length)],
             unit_length, pid, reader)

start_pes_dts(P, pid, reader, o_reader, header, pes_optional, pts) ==
    IF pes_optional.has_dts
    THEN IF remaining_len(o_reader) < 5
         THEN [P |-> P, ret |-> Err(make_error(o_reader, "BadPesHeader"))]
         ELSE start_pes_unit(P, pid, reader, header, Some(pes_optional), pts,
                             Some(parse_timestamp(read(o_reader, 5).val)),
                             header.packet_length
                                 - (3 + pes_optional.additional_header_length))
    ELSE start_pes_unit(P, pid, reader, header, Some(pes_optional), pts, None,
                        header.packet_length
                            - (3 + pes_optional.additional_header_length))

start_pes_pts_read(P, pid, reader, pts_bytes, header, pes_optional) ==
    start_pes_dts(P, pid, reader, pts_bytes.reader, header, pes_optional,
                  Some(parse_timestamp(pts_bytes.val)))

start_pes_pts(P, pid, reader, o_reader, header, pes_optional) ==
    IF pes_optional.has_pts
    THEN IF remaining_len(o_reader) < 5
         THEN [P |-> P, ret |-> Err(make_error(o_reader, "BadPesHeader"))]
         ELSE start_pes_pts_read(P, pid, reader, read(o_reader, 5), header,
                                 pes_optional)
    ELSE start_pes_dts(P, pid, reader, o_reader, header, pes_optional, None)

start_pes_sub(P, pid, o, header, pes_optional) ==
    IF ~o.ok THEN [P |-> P, ret |-> o]
    ELSE start_pes_pts(P, pid, o.reader, o.sub, header, pes_optional)

start_pes_optional_header(P, pid, reader, header, pes_optional) ==
    start_pes_sub(P, pid,
                  new_sub_reader(reader, pes_optional.additional_header_length),
                  header, pes_optional)

start_pes_optional(P, pid, ob, header) ==
    IF ~ob.ok THEN [P |-> P, ret |-> ob]
    ELSE start_pes_optional_header(P, pid, ob.reader, header,
                                   PesOptionalHeader(ob.val))

start_pes_header(P, pid, reader, header) ==
    IF header.packet_length >= 3 /\ header.stream_id # 191      \* 0xBF
    THEN start_pes_optional(P, pid, read(reader, 3), header)
    ELSE start_pes_unit(P, pid, reader, header, None, None, None,
                        header.packet_length)

start_pes_read(P, pid, hb) ==
    IF ~hb.ok THEN [P |-> P, ret |-> hb]
    ELSE start_pes_header(P, pid, hb.reader, PesHeader(hb.val))

start_pes(P, pid, reader0) == start_pes_read(P, pid, read(reader0, 6))

\* read_payload that leaves a pending entry of the PID alone when a PUSI
\* packet arrives
read_payload_keeps_entry(P, pusi, pid, reader) ==
    IF pusi
    THEN IF pid = 0 \/ pid \in P.known_pmt_pids
         THEN start_psi(P, pid, reader)
         ELSE IF remaining_len(reader) >= 6 /\ is_pes(peek(reader, 3).val)
         THEN start_pes(P, pid, reader)
         ELSE [P |-> P, ret |-> Ok([kind |-> "Raw", reader |-> reader])]
    ELSE continue_payload_unit(P, pid, reader)

\* read_payload that asks for the PES start code before it asks whether the
\* PID carries PSI
read_payload_pes_first(P, pusi, pid, reader) ==
    IF pusi
    THEN LET P1 == IF contains_key(P.pending_payload_units, pid)
                   THEN [P EXCEPT !.pending_payload_units = remove(@, pid)]
                   ELSE P
         IN  IF remaining_len(reader) >= 6 /\ is_pes(peek(reader, 3).val)
             THEN start_pes(P1, pid, reader)
             ELSE IF pid = 0 \/ pid \in P1.known_pmt_pids
             THEN start_psi(P1, pid, reader)
             ELSE [P |-> P1, ret |-> Ok([kind |-> "Raw", reader |-> reader])]
    ELSE continue_payload_unit(P, pid, reader)

(***************************************************************************)
(* MpegTsParser::read_payload, parse_internal and parse (lib.rs).          *)
(***************************************************************************)
read_payload(P, pusi, pid, reader) ==
    IF pusi
    THEN LET P1 == IF contains_key(P.pending_payload_units, pid)
                   THEN [P EXCEPT !.pending_payload_units = remove(@, pid)]
                   ELSE P
         IN  IF pid = 0 \/ pid \in P1.known_pmt_pids
             THEN start_psi(P1, pid, reader)
             ELSE IF remaining_len(reader) >= 6 /\ is_pes(peek(reader, 3).val)
             THEN start_pes(P1, pid, reader)
             ELSE [P |-> P1, ret |-> Ok([kind |-> "Raw", reader |-> reader])]
    ELSE continue_payload_unit(P, pid, reader)

\* the end of parse_internal: the Packet with the payload read_payload
\* returned, or its error
parse_internal_payload(header, adaptation_field, pl) ==
    IF ~pl.ret.ok THEN pl
    ELSE [P |-> pl.P, ret |-> Ok([header |-> header,
                                  adaptation_field |-> adaptation_field,
                                  payload |-> Some(pl.ret.val)])]

parse_internal_body(P, header, adaptation_field, reader) ==
    IF header.has_payload
    THEN parse_internal_payload(header, adaptation_field,
                                read_payload(P, header.pusi, header.pid, reader))
    ELSE [P |-> P, ret |-> Ok([header |-> header,
                               adaptation_field |-> adaptation_field,
                               payload |-> None])]

parse_internal_adaptation_field(P, header, af) ==
    IF ~af.ok THEN [P |-> P, ret |-> af]
    ELSE parse_internal_body(P, header, Some(af.val), af.reader)

\* parse_internal that reads the adaptation field before it looks for the
\* null PID
parse_internal_null_late(P, header, reader) ==
    IF header.sync_byte # 71
    THEN [P |-> P, ret |-> Err(make_error(reader, "LostSync"))]
    ELSE IF header.has_adaptation_field /\ ~read_adaptation_field(reader).ok
    THEN [P |-> P, ret |-> read_adaptation_field(reader)]
    ELSE IF header.pid = 8191
    THEN [P |-> P, ret |-> Ok([header |-> header, adaptation_field |-> None,
                               payload |-> None])]
    ELSE IF header.has_adaptation_field
    THEN parse_internal_adaptation_field(P, header, read_adaptation_field(reader))
    ELSE parse_internal_body(P, header, None, reader)

\* parse_internal behind the header: the sync byte, the null PID, the
\* adaptation field, the payload
parse_internal_header(P, header, reader) ==
    IF header.sync_byte # 71        \* 0x47
    THEN [P |-> P, ret |-> Err(make_error(reader, "LostSync"))]
    ELSE IF header.pid = 8191       \* 0x1fff
    THEN [P |-> P, ret |-> Ok([header |-> header, adaptation_field |-> None,
                               payload |-> None])]
    ELSE IF header.has_adaptation_field
    THEN parse_internal_adaptation_field(P, header, read_adaptation_field(reader))
    ELSE parse_internal_body(P, header, None, reader)

parse_internal_read(P, hb) ==
    IF ~hb.ok THEN [P |-> P, ret |-> hb]
    ELSE parse_internal_header(P, PacketHeader(hb.val), hb.reader)

parse_internal(P, reader0) == parse_internal_read(P, read(reader0, 4))

parse(P, pkt) == parse_internal(P, SliceReader_new(pkt))

(***************************************************************************)
(* BdavParser::parse (bdav/mod.rs): the 4-byte BdavPacketHeader, then      *)
(* parse_internal on the same reader.                                      *)
(***************************************************************************)
BdavParser_parse_packet(header, inner) ==
    IF ~inner.ret.ok THEN inner
    ELSE [P |-> inner.P,
          ret |-> Ok([header |-> header, packet |-> inner.ret.val])]

\* BdavParser::parse that hands parse_internal the packet from its first
\* byte
BdavParser_parse_from_start(P, hb) ==
    IF ~hb.ok THEN [P |-> P, ret |-> hb]
    ELSE BdavParser_parse_packet(BdavPacketHeader(hb.val),
             parse_internal(P, [hb.reader EXCEPT !.slice = hb.val \o @,
                                                 !.location = 0]))

BdavParser_parse_header(P, hb) ==
    IF ~hb.ok THEN [P |-> P, ret |-> hb]
    ELSE BdavParser_parse_packet(BdavPacketHeader(hb.val),
                                 parse_internal(P, hb.reader))

BdavParser_parse(P, pkt) == BdavParser_parse_header(P, read(SliceReader_new(pkt), 4))

(***************************************************************************)
(* The packets fed to the parser.  TsPacketLen stands for the 188 bytes of *)
(* a transport packet ([u8; 188] in MpegTsParser::parse): the 4-byte       *)
(* header and BodyLen bytes of adaptation field and payload.               *)
(***************************************************************************)
TsPacketLen == 22

BodyLen == TsPacketLen - 4

PidPat == 0

PidA == 256

PidB == 257

PidNull == 8191

\* the PID the PAT names for program 0 (the network information table)
PidNit == 16

RECURSIVE Fill(_, _)
Fill(b, n) == IF n <= 0 THEN << >> ELSE <<b>> \o Fill(b, n - 1)

\* s cut or padded with stuffing bytes 0xFF to n bytes
Pad(s, n) == IF Len(s) >= n THEN SubSeq(s, 1, n) ELSE s \o Fill(255, n - Len(s))

B2N(b) == IF b THEN 1 ELSE 0

HeaderBytes(sync, pusi, pid, af, pl) ==
    <<sync, B2N(pusi) * 64 + pid \div 256, pid % 256, B2N(af) * 32 + B2N(pl) * 16>>

\* a packet without adaptation field: header and payload, stuffed to the end
Pkt(pusi, pid, payload) ==
    Pad(HeaderBytes(71, pusi, pid, FALSE, TRUE) \o payload, TsPacketLen)

\* an adaptation field of length byte len and flag byte flags, filled with
\* the bytes of fill and then stuffing
AfBytes(len, flags, fill) == <<len, flags>> \o Pad(fill, len - 1)

\* a packet whose adaptation field leaves exactly the payload
PktAf(pusi, pid, flags, fill, payload) ==
    Pad(HeaderBytes(71, pusi, pid, TRUE, TRUE)
            \o AfBytes(BodyLen - Len(payload) - 1, flags, fill) \o payload,
        TsPacketLen)

\* the k-th (from 0) packet of a unit on pid: the first has PUSI
UnitPkt(pid, bytes, k) ==
    Pkt(k = 0, pid, SubSeq(bytes, k * BodyLen + 1,
                           IF (k + 1) * BodyLen < Len(bytes)
                           THEN (k + 1) * BodyLen ELSE Len(bytes)))

\* a PSI section: header, table syntax, body and the CRC-32/MPEG-2 of these
SectionHead(table_id, private, body) ==
    LET section_length == 5 + Len(body) + 4
    IN  <<table_id, 128 + B2N(private) * 64 + 48 + section_length \div 256,
          section_length % 256,
          0, 1, 193, 0, 0>>

Section(table_id, private, body) ==
    LET covered == SectionHead(table_id, private, body) \o body
    IN  covered \o RegBytes(CrcUpdate(CrcInit, covered))

\* the same section with the last byte of its CRC changed
BadSection(table_id, private, body) ==
    LET good == Section(table_id, private, body)
    IN  [good EXCEPT ![Len(good)] = (@ + 1) % 256]

PatEntryBytes(program_num, pmt_pid) ==
    <<program_num \div 256, program_num % 256, 224 + pmt_pid \div 256, pmt_pid % 256>>

\* the payload of a PUSI packet that starts a section: pointer field 0
PsiPayload(section) == <<0>> \o section

PesStart(stream_id, packet_length) ==
    <<0, 0, 1, stream_id, packet_length \div 256, packet_length % 256>>

\* PesOptionalHeader bytes: flags (has_pts 0x80, has_dts 0x40) and the
\* additional header bytes
PesOptional(flags, additional) == <<128, flags, Len(additional)>> \o additional

(***************************************************************************)
(* Payload units and their packets.                                        *)
(***************************************************************************)
\* PAT {program 1 -> PidA}, and the same with a wrong CRC
Pat1 == PsiPayload(Section(0, FALSE, PatEntryBytes(1, PidA)))

Pat1Bad == PsiPayload(BadSection(0, FALSE, PatEntryBytes(1, PidA)))

\* PAT {program 0 -> PidNit, program 1 -> PidA}: longer than one packet body
Pat2 == PsiPayload(Section(0, FALSE, PatEntryBytes(0, PidNit) \o PatEntryBytes(1, PidA)))

Pat2Bad == PsiPayload(BadSection(0, FALSE, PatEntryBytes(0, PidNit) \o PatEntryBytes(1, PidA)))

\* PAT without entries
Pat0 == PsiPayload(Section(0, FALSE, << >>))

\* a private section with table_id 0 that lists program 1 -> PidB
PrivatePat == PsiPayload(Section(0, TRUE, PatEntryBytes(1, PidB)))

\* a section with table_id 0x42
OtherTable == PsiPayload(Section(66, FALSE, <<7>>))

\* PMT: pcr_pid PidB, no program descriptors, one stream (type 0x1B, PidB,
\* one descriptor of tag 5 and one data byte): longer than one packet body
Pmt1 == PsiPayload(Section(2, FALSE,
            <<224 + PidB \div 256, PidB % 256, 240, 0,
              27, 224 + PidB \div 256, PidB % 256, 240, 3, 5, 1, 9>>))

\* PMT whose program_info_length (5) overruns the table body
PmtOverrun == PsiPayload(Section(2, FALSE, <<224 + PidB \div 256, PidB % 256, 240, 5>>))

\* PSI headers with section_length 0, 3 and 7
PsiLen0 == <<0, 0, 176, 0>>

PsiLen3 == <<0, 0, 176, 3, 0, 1, 193, 0, 0>>

PsiLen7 == <<0, 0, 176, 7, 0, 1, 193, 0, 0, 1, 2>>

\* a pointer field that overruns the packet
PsiBadPointer == <<200>>

\* PES units: stream 0xE0, optional header without and with PTS
PesData(n) == [i \in 1..n |-> i]

Pes3 == PesStart(224, 3 + 3) \o PesOptional(0, << >>) \o PesData(3)

PesFit == PesStart(224, 3 + (BodyLen - 9)) \o PesOptional(0, << >>)
              \o PesData(BodyLen - 9)

PesPts == PesStart(224, 8 + (BodyLen - 14) + 2) \o PesOptional(128, <<33, 0, 1, 0, 1>>)
              \o PesData(BodyLen - 14 + 2)

\* three packets: BodyLen - 9, BodyLen and 3 bytes
PesLong == PesStart(224, 3 + 2 * BodyLen - 6) \o PesOptional(0, << >>)
              \o PesData(2 * BodyLen - 6)

\* stream 0xBF (no optional header), 4 bytes
PesBf == PesStart(191, 4) \o PesData(4)

\* packet_length 0, packet_length 3 with nothing behind the optional header,
\* packet_length 3 with 5 additional header bytes, PTS flagged without room
PesLen0 == PesStart(224, 0) \o PesData(3)

PesLen3 == PesStart(224, 3) \o PesOptional(0, << >>)

PesUnder == PesStart(224, 3) \o PesOptional(128, <<33, 0, 1, 0, 1>>)

PesPtsShort == PesStart(224, 9) \o PesOptional(128, <<33, 0>>)

\* a payload that starts with no PES start code
RawPayload == <<0, 0, 2, 1, 2, 3, 4>>

NumPkts(bytes) == (Len(bytes) + BodyLen - 1) \div BodyLen

UnitPkts(pid, bytes) == {UnitPkt(pid, bytes, k) : k \in 0..(NumPkts(bytes) - 1)}

PsiUnits == {Pat1, Pat1Bad, Pat2, Pat2Bad, Pat0, PrivatePat, OtherTable,
             PsiLen0, PsiLen3, PsiLen7, PsiBadPointer}

PesUnits == {Pes3, PesFit, PesPts, PesLong, PesBf, PesLen0, PesLen3, PesUnder,
             PesPtsShort, RawPayload}

PatPackets == UNION {UnitPkts(PidPat, u) : u \in PsiUnits}

PidAPackets == UNION {UnitPkts(PidA, u) : u \in {Pmt1, PmtOverrun, PesPts}}

\* on PidB also: the last 3 bytes of PesLong alone behind an adaptation
\* field, and a whole unit behind an adaptation field with a PCR
PidBPackets ==
    UNION {UnitPkts(PidB, u) : u \in PesUnits}
        \cup {PktAf(FALSE, PidB, 0, << >>,
                    SubSeq(PesLong, 2 * BodyLen + 1, Len(PesLong))),
              PktAf(TRUE, PidB, 16, <<0, 0, 0, 1, 128, 7>>, Pes3)}

\* null packets with every combination of the flags, a packet without
\* payload, a lost sync byte, bad adaptation fields
OtherPackets ==
    {Pad(HeaderBytes(71, pusi, PidNull, af, pl) \o <<0, 0, 1>>, TsPacketLen) :
        pusi \in BOOLEAN, af \in BOOLEAN, pl \in BOOLEAN}
        \cup {Pad(HeaderBytes(71, FALSE, PidB, TRUE, FALSE) \o AfBytes(BodyLen - 1, 0, << >>),
                  TsPacketLen),
              Pad(HeaderBytes(72, TRUE, PidPat, FALSE, TRUE) \o Pat0, TsPacketLen),
              Pad(HeaderBytes(71, TRUE, PidB, TRUE, TRUE) \o <<0, 0>>, TsPacketLen),
              Pad(HeaderBytes(71, TRUE, PidB, TRUE, TRUE) \o <<184, 0>>, TsPacketLen),
              Pad(HeaderBytes(71, TRUE, PidB, TRUE, TRUE) \o <<BodyLen, 0>>, TsPacketLen),
              Pad(HeaderBytes(71, TRUE, PidB, TRUE, TRUE) \o <<3, 16>>, TsPacketLen),
              Pad(HeaderBytes(71, TRUE, PidB, TRUE, TRUE) \o <<8, 8, 1, 2, 3, 4, 5>>,
                  TsPacketLen)}

\* adaptation fields on PidB: a PCR before a PES start, flags of sub-fields
\* the parser does not read, a PCR and an OPCR before four bytes of
\* payload, and a field with both flagged that ends inside the OPCR
AfPackets ==
    {PktAf(TRUE, PidB, 16, <<0, 0, 0, 1, 128, 7>>, PesBf),
     PktAf(TRUE, PidB, 7, << >>, Pes3),
     PktAf(TRUE, PidB, 24, <<0, 0, 0, 1, 128, 7, 0, 0, 0, 2, 0, 9>>, <<1, 2, 3, 4>>),
     Pad(HeaderBytes(71, TRUE, PidB, TRUE, TRUE) \o <<8, 24, 0, 0, 0, 1, 128, 7, 9>>,
         TsPacketLen)}

Packets == PatPackets \cup PidAPackets \cup PidBPackets \cup OtherPackets \cup AfPackets

(***************************************************************************)
(* The caller: a parser built by MpegTsParser::default(), then one parse   *)
(* call per packet.  The Packet a call returns borrows the caller's        *)
(* buffer: the caller drops it before it parses the next packet.           *)
(***************************************************************************)
App == "DefaultAppDetails"

Parser(app, pend, known) ==
    [app |-> app, pending_payload_units |-> pend, known_pmt_pids |-> known]

NoPacket == << >>

NoResult == Ok([header |-> PacketHeader(<<71, 0, 0, 0>>), adaptation_field |-> None,
                payload |-> None])

\* the bytes a pending unit holds
UnitBytes(builder) ==
    IF builder.unit.kind = "Psi" THEN builder.unit.data ELSE builder.unit.data.bytes

RECURSIVE PendingBytes(_)
PendingBytes(map) ==
    IF DOMAIN map = {} THEN 0
    ELSE LET pid == CHOOSE q \in DOMAIN map : TRUE
         IN  Len(UnitBytes(map[pid])) + PendingBytes(remove(map, pid))

\* the model follows the parser while its pending units hold no more than
\* the bytes of two packet bodies
MaxPendingBytes == 2 * BodyLen

WithinBounds(map) == PendingBytes(map) <= MaxPendingBytes

BdavIdle ==
    /\ bdav_packet = NoPacket
    /\ bdav_inner = Parser("DefaultBdavAppDetails", EmptyMap, {})
    /\ base_inner = Parser("DefaultBdavAppDetails", EmptyMap, {})
    /\ bdav_result = NoResult
    /\ base_result = NoResult

\* BdavParserStorage::default(), and no PG unit finished yet
BdavParserStorage_default ==
    [pending_ig_segments |-> EmptyMap, pending_obj_segments |-> EmptyMap]

PgIdle ==
    /\ app_parser_storage = BdavParserStorage_default
    /\ storage_before = BdavParserStorage_default
    /\ pg_data = NoPacket
    /\ pg_result = None
    /\ pg_fed = EmptyMap

\* no reader at hand
ReaderIdle ==
    /\ rd_parent = None
    /\ rd_sub = None
    /\ rd_call = None
    /\ rd_ret = None
    /\ rd_parent_before = None
    /\ rd_sub_before = None

\* no bytecode at hand
CmdIdle ==
    /\ cmd_bytes = NoPacket
    /\ cmd_parsed = None
    /\ cmd_formatted = None

\* no assembly string at hand
MObjIdle ==
    /\ mobj_text = ""
    /\ mobj_cmd = None
    /\ mobj_formatted = None
    /\ mobj_reassembled = None

\* MpegTsParser::default() and BdavParser::default(), no packet parsed yet
ParserIdle ==
    /\ overflow_checks \in BOOLEAN
    /\ pending_payload_units = EmptyMap
    /\ known_pmt_pids = {}
    /\ packet = NoPacket
    /\ result = NoResult
    /\ pending_before = EmptyMap
    /\ known_before = {}
    /\ panicked = FALSE
    /\ BdavIdle

Init ==
    /\ ParserIdle
    /\ PgIdle
    /\ MObjIdle
    /\ CmdIdle
    /\ ReaderIdle

\* parser.parse(&packet)
Parse(pkt) ==
    /\ ~panicked
    /\ packet = NoPacket
    /\ \E r \in {parse(Parser(App, pending_payload_units, known_pmt_pids), pkt)} :
           /\ WithinBounds(r.P.pending_payload_units)
           /\ pending_payload_units' = r.P.pending_payload_units
           /\ known_pmt_pids' = r.P.known_pmt_pids
           /\ result' = r.ret
           /\ panicked' = IsPanic(r.ret)
    /\ packet' = pkt
    /\ pending_before' = pending_payload_units
    /\ known_before' = known_pmt_pids
    /\ UNCHANGED <<overflow_checks, bdav_packet, bdav_inner, bdav_result,
                   base_inner, base_result, pg_vars, mobj_vars, cmd_vars, reader_vars>>

\* the caller drops the returned Packet or Error
Drop ==
    /\ ~panicked
    /\ packet # NoPacket
    /\ packet' = NoPacket
    /\ result' = NoResult
    /\ pending_before' = EmptyMap
    /\ known_before' = {}
    /\ UNCHANGED <<overflow_checks, pending_payload_units, known_pmt_pids, panicked,
                   bdav_packet, bdav_inner, bdav_result, base_inner, base_result,
                   pg_vars, mobj_vars, cmd_vars, reader_vars>>

Next ==
    \/ \E pkt \in Packets : Parse(pkt)
    \/ Drop

Spec == Init /\ [][Next]_vars

(***************************************************************************)
(* What the properties below read off the last call.                       *)
(***************************************************************************)
Called == packet # NoPacket

Hdr == PacketHeader(SubSeq(packet, 1, 4))

\* the reader at the packet's payload: behind the header and, when flagged,
\* the adaptation field
PayloadReader(pkt) ==
    LET hb == read(SliceReader_new(pkt), 4)
    IN  IF PacketHeader(hb.val).has_adaptation_field
        THEN read_adaptation_field(hb.reader)
        ELSE [ok |-> TRUE, reader |-> hb.reader]

\* the call got as far as read_payload
ReachedPayload ==
    /\ Called
    /\ Hdr.sync_byte = 71
    /\ Hdr.pid # PidNull
    /\ Hdr.has_payload
    /\ PayloadReader(packet).ok

PayloadBytes == PayloadReader(packet).reader.slice

IsPayload(kind) ==
    /\ result.ok
    /\ result.val.payload.some
    /\ result.val.payload.val.kind = kind

IsError(details) == ~result.ok /\ result.err.details = details

ThePayload == result.val.payload.val

Min(a, b) == IF a <= b THEN a ELSE b

\* a is the tail of b
IsSuffix(a, b) ==
    /\ Len(a) <= Len(b)
    /\ a = SubSeq(b, Len(b) - Len(a) + 1, Len(b))

PendingKind(builder) == IF builder.unit.kind = "Psi" THEN "PsiPending" ELSE "PesPending"

\* the bytes of a completed unit as the returned payload holds them: the
\* whole PES payload, the PSI table body without its CRC
SurfacedBytesOk(payload, bytes) ==
    IF payload.kind = "Pes" THEN payload.data.bytes = bytes
    ELSE /\ payload.kind = "Psi"
         /\ Len(bytes) >= 4
         /\ payload.data.variant = "Raw" =>
                payload.data.bytes = SubSeq(bytes, 1, Len(bytes) - 4)
         /\ payload.data.variant = "Pat" =>
                payload.data.entries = PatEntries(SubSeq(bytes, 1, Len(bytes) - 4))

(***************************************************************************)
(* C1.  A unit of declared length L (the bytes an entry holds plus its     *)
(* remaining) that a non-PUSI packet on its PID continues: while the bytes *)
(* delivered so far stay below L the call returns the unit's Pending       *)
(* variant and the entry holds all the bytes delivered; the call at which  *)
(* they reach L takes the entry out of the map and finishes the unit over  *)
(* exactly the first L bytes, n = min(bytes left in the packet, remaining) *)
(* of them from this packet: a PES unit is returned as Payload::Pes with   *)
(* these bytes, a PSI unit goes through its CRC check and is returned as   *)
(* Payload::Psi over these bytes or as the error of its finish.  A unit a  *)
(* PUSI packet starts and leaves pending holds the last bytes of that      *)
(* packet, fewer than L; one it completes at once as Pes holds L bytes.    *)
(***************************************************************************)
C1_Continue ==
    (ReachedPayload /\ ~Hdr.pusi /\ Hdr.pid \in DOMAIN pending_before) =>
        LET e == pending_before[Hdr.pid]
            n == Min(Len(PayloadBytes), e.remaining)
            bytes == UnitBytes(e) \o SubSeq(PayloadBytes, 1, n)
        IN  IF Len(PayloadBytes) < e.remaining
            THEN /\ IsPayload(PendingKind(e))
                 /\ Hdr.pid \in DOMAIN pending_payload_units
                 /\ UnitBytes(pending_payload_units[Hdr.pid]) = bytes
                 /\ pending_payload_units[Hdr.pid].remaining = e.remaining - n
            ELSE /\ Hdr.pid \notin DOMAIN pending_payload_units
                 /\ Len(bytes) = Len(UnitBytes(e)) + e.remaining
                 /\ e.unit.kind = "Pes" => IsPayload("Pes")
                 /\ e.unit.kind = "Psi" =>
                        \/ IsPayload("Psi")
                        \/ IsError("PsiCrcMismatch")
                        \/ IsError("PacketOverrun")
                 /\ result.ok => SurfacedBytesOk(ThePayload, bytes)

C1_Start ==
    (ReachedPayload /\ Hdr.pusi) =>
        /\ (IsPayload("PsiPending") \/ IsPayload("PesPending")) =>
              /\ Hdr.pid \in DOMAIN pending_payload_units
              /\ PendingKind(pending_payload_units[Hdr.pid]) = ThePayload.kind
              /\ pending_payload_units[Hdr.pid].remaining > 0
              /\ IsSuffix(UnitBytes(pending_payload_units[Hdr.pid]), PayloadBytes)
        /\ IsPayload("Pes") =>
              LET L == ThePayload.header.packet_length
                         - (IF ThePayload.optional_header.some
                            THEN 3 + ThePayload.optional_header.val.additional_header_length
                            ELSE 0)
              IN  /\ Len(ThePayload.data.bytes) = L
                  /\ \E k \in 0..Len(PayloadBytes) :
                        ThePayload.data.bytes = SubSeq(PayloadBytes, k + 1, k + L)

\* C1: a continued unit is pending below its declared length L and is
\* finished over exactly its first L bytes at the call that reaches L
C1_Reassembly == C1_Continue /\ C1_Start

\* a three packet unit completes: the last call found two packets' bytes in
\* the entry and returned Payload::Pes
C1_Witness ==
    /\ ReachedPayload /\ ~Hdr.pusi /\ Hdr.pid \in DOMAIN pending_before
    /\ Len(UnitBytes(pending_before[Hdr.pid])) > BodyLen
    /\ Len(PayloadBytes) > pending_before[Hdr.pid].remaining
    /\ IsPayload("Pes")

(***************************************************************************)
(* C2.  A PUSI packet whose payload is reached on a PID that has a pending *)
(* entry: the entry is discarded.  The call returns what it returns, and   *)
(* leaves the state it leaves, when the entry was never there (so none of  *)
(* the entry's bytes is appended to or surfaced, and no error is about     *)
(* it), and an entry the PID has afterwards was started by this packet: it *)
(* holds bytes of this packet only.                                        *)
(***************************************************************************)
C2_Precondition ==
    ReachedPayload /\ Hdr.pusi /\ Hdr.pid \in DOMAIN pending_before

\* C2: the call behaves as if the PID's pending entry had never been there,
\* and an entry left for the PID is made of this packet's bytes
C2_PusiDiscardsPending ==
    C2_Precondition =>
        LET without == parse(Parser(App, remove(pending_before, Hdr.pid),
                                    known_before), packet)
        IN  /\ result = without.ret
            /\ pending_payload_units = without.P.pending_payload_units
            /\ known_pmt_pids = without.P.known_pmt_pids
            /\ Hdr.pid \in DOMAIN pending_payload_units =>
                  IsSuffix(UnitBytes(pending_payload_units[Hdr.pid]), PayloadBytes)

\* an entry of more than one packet's bytes is dropped by a PUSI packet that
\* starts no unit
C2_Witness ==
    /\ C2_Precondition
    /\ Len(UnitBytes(pending_before[Hdr.pid])) > BodyLen
    /\ Hdr.pid \notin DOMAIN pending_payload_units
    /\ IsPayload("Raw")

(***************************************************************************)
(* C3.  A non-PUSI packet whose payload is reached on a PID without a      *)
(* pending entry returns Ok with the payload Raw over the remaining bytes, *)
(* creates no entry and leaves the state unchanged.                        *)
(***************************************************************************)
C3_ContinuationWithoutEntryIsRaw ==
    (ReachedPayload /\ ~Hdr.pusi /\ Hdr.pid \notin DOMAIN pending_before) =>
        /\ IsPayload("Raw")
        /\ ThePayload.reader.slice = PayloadBytes
        /\ pending_payload_units = pending_before
        /\ known_pmt_pids = known_before

(***************************************************************************)
(* C4.  After a PAT with a valid CRC is parsed, known_pmt_pids is exactly  *)
(* the set of program_map_pid of its entries with program_num # 0.         *)
(***************************************************************************)
C4_PatSkipsProgramZero ==
    (Called /\ IsPayload("Psi") /\ ThePayload.data.variant = "Pat") =>
        LET entries == ThePayload.data.entries
        IN  known_pmt_pids =
                {entries[i].program_map_pid :
                    i \in {j \in DOMAIN entries : entries[j].program_num # 0}}

(***************************************************************************)
(* C5.  When parse returns an error, the pending map and known_pmt_pids    *)
(* are what they were before the call.                                     *)
(***************************************************************************)
C5_ErrorLeavesStateUnchanged ==
    (Called /\ ~result.ok /\ ~IsPanic(result)) =>
        /\ pending_payload_units = pending_before
        /\ known_pmt_pids = known_before

(***************************************************************************)
(* C6.  A PSI section whose CRC trailer does not match is not surfaced and *)
(* does not change known_pmt_pids; the call returns PsiCrcMismatch located *)
(* at the offset of the first PSI byte in the packet: behind the pointer   *)
(* field and its filler in a PUSI packet, the first payload byte in a      *)
(* continuation.                                                           *)
(***************************************************************************)
C6_CrcMismatchLocation ==
    (Called /\ IsError("PsiCrcMismatch")) =>
        /\ known_pmt_pids = known_before
        /\ result.err.location =
              Len(packet) - Len(PayloadBytes)
                + (IF Hdr.pusi THEN 1 + PayloadBytes[1] ELSE 0)

(***************************************************************************)
(* C7.  A packet with sync byte 0x47 and PID 0x1FFF returns Ok with its    *)
(* header, no adaptation field and no payload, whatever its flags and its  *)
(* other bytes, and changes neither the pending map nor known_pmt_pids.    *)
(***************************************************************************)
C7_NullPacket ==
    (Called /\ Hdr.sync_byte = 71 /\ Hdr.pid = 8191) =>
        /\ result = Ok([header |-> Hdr, adaptation_field |-> None,
                        payload |-> None])
        /\ pending_payload_units = pending_before
        /\ known_pmt_pids = known_before

\* a null packet flagged PUSI, adaptation field and payload, its adaptation
\* field length 0, met with a unit pending and a PMT PID known
C7_Witness ==
    /\ Called /\ Hdr.sync_byte = 71 /\ Hdr.pid = 8191
    /\ Hdr.pusi /\ Hdr.has_adaptation_field /\ Hdr.has_payload
    /\ ~read_adaptation_field(read(SliceReader_new(packet), 4).reader).ok
    /\ pending_before # EmptyMap
    /\ known_before # {}
    /\ result.ok

(***************************************************************************)
(* C8.  The payload of a PUSI packet goes to PSI start exactly when its    *)
(* PID is 0 or in known_pmt_pids as the call finds it; otherwise to PES    *)
(* start exactly when at least 6 bytes remain and the first three are      *)
(* 00 00 01; otherwise it is returned Raw over the remaining bytes and the *)
(* PID gets no pending entry.  What a start returns tells which one ran.   *)
(***************************************************************************)
PsiOutcome ==
    /\ \/ IsPayload("PsiPending") \/ IsPayload("Psi")
       \/ IsError("BadPsiHeader") \/ IsError("PsiCrcMismatch")
       \/ IsError("PacketOverrun") \/ IsPanic(result)
    /\ Hdr.pid \in DOMAIN pending_payload_units =>
          pending_payload_units[Hdr.pid].unit.kind = "Psi"

PesOutcome ==
    /\ \/ IsPayload("PesPending") \/ IsPayload("Pes")
       \/ IsError("BadPesHeader") \/ IsError("PacketOverrun")
       \/ IsPanic(result)
    /\ Hdr.pid \in DOMAIN pending_payload_units =>
          pending_payload_units[Hdr.pid].unit.kind = "Pes"

LooksLikePes ==
    /\ Len(PayloadBytes) >= 6
    /\ SubSeq(PayloadBytes, 1, 3) = <<0, 0, 1>>

\* C8: PSI start for PID 0 and known PMT PIDs, else PES start for a start
\* code in at least 6 bytes, else Raw and no pending entry
C8_PusiRouting ==
    (ReachedPayload /\ Hdr.pusi) =>
        IF Hdr.pid = 0 \/ Hdr.pid \in known_before
        THEN PsiOutcome
        ELSE IF LooksLikePes
        THEN PesOutcome
        ELSE /\ IsPayload("Raw")
             /\ ThePayload.reader.slice = PayloadBytes
             /\ ThePayload.reader.location = Len(packet) - Len(PayloadBytes)
             /\ Hdr.pid \notin DOMAIN pending_payload_units

\* a payload that starts 00 00 01 on a PID the PAT made known is read as a
\* PSI section
C8_Witness ==
    /\ ReachedPayload /\ Hdr.pusi
    /\ Hdr.pid # 0 /\ Hdr.pid \in known_before
    /\ LooksLikePes
    /\ IsPayload("PsiPending") \/ IsError("BadPsiHeader")

(***************************************************************************)
(* C10.  A PUSI packet that goes to PSI start and whose section header has *)
(* section_length 0 finishes in the same call: Ok with Payload::Psi, no    *)
(* table syntax, an empty body, and no pending entry for the PID.          *)
(***************************************************************************)
C10_Precondition ==
    /\ ReachedPayload /\ Hdr.pusi
    /\ Hdr.pid = 0 \/ Hdr.pid \in known_before
    /\ Len(PayloadBytes) >= 1
    /\ Len(PayloadBytes) >= 1 + PayloadBytes[1] + 3
    /\ PsiHeader(SubSeq(PayloadBytes, 2 + PayloadBytes[1],
                        4 + PayloadBytes[1])).section_length = 0

\* C10: section_length 0 returns Ok with Payload::Psi, no table syntax, an
\* empty body and no pending entry
C10_EmptySectionFinishes ==
    C10_Precondition =>
        /\ IsPayload("Psi")
        /\ ThePayload.table_syntax = None
        /\ ThePayload.data = [variant |-> "Raw", bytes |-> << >>]
        /\ Hdr.pid \notin DOMAIN pending_payload_units

(***************************************************************************)
(* BdavParser beside the base parser.  Each 192-byte packet (4 + the       *)
(* transport packet) goes to BdavParser::parse, and its trailing transport *)
(* packet to MpegTsParser::parse of a base parser with the same            *)
(* application details that has seen the trailing bytes of every packet    *)
(* before.                                                                 *)
(***************************************************************************)
BdavPrefixes == {<<0, 0, 0, 0>>, <<71, 64, 0, 16>>, <<255, 255, 255, 255>>}

BdavTsPackets ==
    UNION {UnitPkts(PidPat, u) : u \in {Pat1, Pat1Bad, Pat2, PsiLen0, PsiLen7}}
        \cup PidAPackets
        \cup UNION {UnitPkts(PidB, u) : u \in {Pes3, PesLong, PesPtsShort, RawPayload}}
        \cup OtherPackets

BdavPackets == {prefix \o ts : prefix \in BdavPrefixes, ts \in BdavTsPackets}

\* bdav_parser.parse(&packet) and, beside it, base_parser.parse(&packet[4..])
BdavParse(pkt) ==
    /\ ~panicked
    /\ bdav_packet = NoPacket
    /\ \E b \in {BdavParser_parse(bdav_inner, pkt)},
          m \in {parse(base_inner, SubSeq(pkt, 5, Len(pkt)))} :
           /\ WithinBounds(b.P.pending_payload_units)
           /\ WithinBounds(m.P.pending_payload_units)
           /\ bdav_inner' = b.P
           /\ bdav_result' = b.ret
           /\ base_inner' = m.P
           /\ base_result' = m.ret
           /\ panicked' = (IsPanic(b.ret) \/ IsPanic(m.ret))
    /\ bdav_packet' = pkt
    /\ UNCHANGED <<overflow_checks, pending_payload_units, known_pmt_pids, packet,
                   result, pending_before, known_before, pg_vars, mobj_vars, cmd_vars, reader_vars>>

\* the caller drops the returned BdavPacket or Error
BdavDrop ==
    /\ ~panicked
    /\ bdav_packet # NoPacket
    /\ bdav_packet' = NoPacket
    /\ bdav_result' = NoResult
    /\ base_result' = NoResult
    /\ UNCHANGED <<overflow_checks, pending_payload_units, known_pmt_pids, packet,
                   result, pending_before, known_before, panicked, bdav_inner,
                   base_inner, pg_vars, mobj_vars, cmd_vars, reader_vars>>

NextBdav ==
    \/ \E pkt \in BdavPackets : BdavParse(pkt)
    \/ BdavDrop

SpecBdav == Init /\ [][NextBdav]_vars

(***************************************************************************)
(* C9.  BdavParser::parse returns the cpi and timestamp of the packet's    *)
(* first 4 bytes and, with them, the packet header, adaptation field and   *)
(* payload the base parser returns for the trailing transport packet (a    *)
(* Raw payload over the same bytes, 4 bytes further into the packet), or   *)
(* an error of the same kind where the base parser returns an error; both  *)
(* parsers are left with the same pending map and known_pmt_pids.  The     *)
(* base parser never sees the prefix, so the prefix has no part in this.   *)
(***************************************************************************)
SamePayload(bdav, base) ==
    /\ bdav.some = base.some
    /\ base.some =>
          IF base.val.kind = "Raw"
          THEN /\ bdav.val.kind = "Raw"
               /\ bdav.val.reader.slice = base.val.reader.slice
               /\ bdav.val.reader.location = base.val.reader.location + 4
          ELSE bdav.val = base.val

\* C9: BdavParser::parse returns the prefix's cpi and timestamp with what
\* the base parser returns for the trailing transport packet, and leaves the
\* same state
C9_BdavMatchesBase ==
    bdav_packet # NoPacket =>
        /\ bdav_inner = base_inner
        /\ bdav_result.ok = base_result.ok
        /\ base_result.ok =>
              /\ bdav_result.val.header = BdavPacketHeader(SubSeq(bdav_packet, 1, 4))
              /\ bdav_result.val.header.cpi = Bits(bdav_packet[1], 7, 6)
              /\ bdav_result.val.packet.header = base_result.val.header
              /\ bdav_result.val.packet.adaptation_field
                    = base_result.val.adaptation_field
              /\ SamePayload(bdav_result.val.packet.payload, base_result.val.payload)
        /\ ~base_result.ok =>
              bdav_result.err.details = base_result.err.details

\* a prefix that reads as a transport packet header of its own, in front of
\* the packet that completes a PAT
C9_Witness ==
    /\ bdav_packet # NoPacket
    /\ bdav_packet[1] = 71
    /\ bdav_result.ok
    /\ bdav_result.val.header.cpi = 1
    /\ bdav_result.val.packet.payload.some
    /\ bdav_result.val.packet.payload.val.kind = "Psi"
    /\ bdav_inner.known_pmt_pids # {}

(***************************************************************************)
(* C11.  A PUSI packet that goes to PSI start with its pointer field, its  *)
(* 3-byte header and its 5-byte table syntax in the packet: for            *)
(* section_length 1..8 (a table length below 4) the call returns           *)
(* BadPsiHeader and the PID has no pending entry; for section_length 9 and *)
(* more a unit of section_length - 5 bytes is started, pending with        *)
(* exactly that many bytes held and remaining when the packet has fewer.   *)
(***************************************************************************)
PsiStartHeader ==
    PsiHeader(SubSeq(PayloadBytes, 2 + PayloadBytes[1], 4 + PayloadBytes[1]))

C11_Precondition ==
    /\ ReachedPayload /\ Hdr.pusi
    /\ Hdr.pid = 0 \/ Hdr.pid \in known_before
    /\ Len(PayloadBytes) >= 1
    /\ Len(PayloadBytes) >= 1 + PayloadBytes[1] + 3 + 5

\* C11: section_length 1..8 is BadPsiHeader without a pending entry, 9 and
\* more starts a unit of section_length - 5 bytes
C11_ShortSectionIsBadPsiHeader ==
    C11_Precondition =>
        LET section_length == PsiStartHeader.section_length
            left == Len(PayloadBytes) - (1 + PayloadBytes[1] + 3 + 5)
        IN  /\ (section_length >= 1 /\ section_length <= 8) =>
                  /\ IsError("BadPsiHeader")
                  /\ Hdr.pid \notin DOMAIN pending_payload_units
            /\ (section_length >= 9 /\ left < section_length - 5) =>
                  /\ IsPayload("PsiPending")
                  /\ Hdr.pid \in DOMAIN pending_payload_units
                  /\ Len(UnitBytes(pending_payload_units[Hdr.pid]))
                        + pending_payload_units[Hdr.pid].remaining
                        = section_length - 5

(***************************************************************************)
(* C12.  A PUSI packet that goes to PES start (its PID neither 0 nor a     *)
(* known PMT PID, at least 6 payload bytes, the first three 00 00 01) with *)
(* packet_length 0 is returned as Payload::Raw over its payload, not as a  *)
(* completed Payload::Pes, and the PID gets no pending entry.              *)
(***************************************************************************)
C12_Precondition ==
    /\ ReachedPayload /\ Hdr.pusi
    /\ ~(Hdr.pid = 0 \/ Hdr.pid \in known_before)
    /\ LooksLikePes
    /\ PesHeader(SubSeq(PayloadBytes, 1, 6)).packet_length = 0

\* C12: packet_length 0 is surfaced as Raw, without a pending entry
C12_PesLengthZeroIsRaw ==
    C12_Precondition =>
        /\ IsPayload("Raw")
        /\ ThePayload.reader.slice = PayloadBytes
        /\ Hdr.pid \notin DOMAIN pending_payload_units

\* the call completed the unit of its PID: a continuation that brought the
\* entry's remaining to 0, or a start that returned a finished unit or the
\* error of its finish
CompletingContinuation ==
    /\ ReachedPayload /\ ~Hdr.pusi
    /\ Hdr.pid \in DOMAIN pending_before
    /\ append(pending_before[Hdr.pid], PayloadReader(packet).reader).val

CompletingStart ==
    /\ ReachedPayload /\ Hdr.pusi
    /\ IsPayload("Psi") \/ IsPayload("Pes") \/ IsError("PsiCrcMismatch")

\* C19: every entry of the pending map has remaining >= 1; the call in
\* which a unit's remaining reaches 0 leaves no entry for its PID, whether
\* finish succeeds or fails, and hands finish a builder with remaining 0
C19_PendingRemainingPositive ==
    /\ \A pid \in DOMAIN pending_payload_units :
           pending_payload_units[pid].remaining >= 1
    /\ CompletingContinuation =>
           /\ append(pending_before[Hdr.pid],
                     PayloadReader(packet).reader).builder.remaining = 0
           /\ Hdr.pid \notin DOMAIN pending_payload_units
    /\ CompletingStart => Hdr.pid \notin DOMAIN pending_payload_units

\* a continuation completes its unit while another PID's unit stays pending
C19_Witness ==
    /\ CompletingContinuation
    /\ IsPayload("Pes") \/ IsPayload("Psi")
    /\ pending_payload_units # EmptyMap

\* a PES start whose headers were read: the 6-byte header and, for
\* packet_length >= 3 and a stream id other than 0xBF, the optional header
\* with its additional bytes and time stamps
PesStartHeader == PesHeader(SubSeq(PayloadBytes, 1, 6))

PesHasOptional ==
    PesStartHeader.packet_length >= 3 /\ PesStartHeader.stream_id # 191

PesStartOptional == PesOptionalHeader(SubSeq(PayloadBytes, 7, 9))

C20_Precondition ==
    /\ ReachedPayload /\ Hdr.pusi
    /\ ~(Hdr.pid = 0 \/ Hdr.pid \in known_before)
    /\ LooksLikePes
    /\ ~IsError("BadPesHeader") /\ ~IsError("PacketOverrun")

\* the bytes of the packet behind the PES headers
PesBodyBytes ==
    IF PesHasOptional
    THEN Len(PayloadBytes) - 9 - PesStartOptional.additional_header_length
    ELSE Len(PayloadBytes) - 6

\* C20: a PES start gives its unit the budget packet_length
\* - (3 + additional_header_length) when the optional header is read and
\* packet_length otherwise, a value in 0..65535: the unit is returned
\* complete with min(budget, bytes in the packet) bytes or is left pending
\* with bytes held + remaining = budget
C20_PesBudget ==
    C20_Precondition =>
        LET budget == IF PesHasOptional
                      THEN PesStartHeader.packet_length
                           - (3 + PesStartOptional.additional_header_length)
                      ELSE PesStartHeader.packet_length
        IN  /\ budget >= 0 /\ budget <= 65535
            /\ IsPayload("Pes") \/ IsPayload("PesPending")
            /\ IsPayload("Pes") =>
                   Len(ThePayload.data.bytes) = Min(budget, PesBodyBytes)
            /\ IsPayload("PesPending") =>
                   /\ Hdr.pid \in DOMAIN pending_payload_units
                   /\ Len(UnitBytes(pending_payload_units[Hdr.pid]))
                         + pending_payload_units[Hdr.pid].remaining = budget

(***************************************************************************)
(* The PG segment decoder (src/src/bdav/pg.rs).  A PG unit's data is one   *)
(* segment: type, length, body.  Objects and IG compositions may be cut    *)
(* into fragments, one per unit, which BdavParserStorage collects under    *)
(* the object's (id, version) or the composition's descriptor.  A Vec<u8>  *)
(* is its capacity and its bytes; Vec::with_capacity(n) has capacity n.    *)
(***************************************************************************)
RECURSIVE from_be_bytes(_)
\* u16::from_be_bytes, u32::from_be_bytes of a slice of up to three bytes
from_be_bytes(s) ==
    IF s = << >> THEN 0
    ELSE from_be_bytes(SubSeq(s, 1, Len(s) - 1)) * 256 + s[Len(s)]

\* read_u8, read_be_u16, read_be_u24: the next n bytes as a number
read_be_value(r) ==
    IF ~r.ok THEN r
    ELSE [ok |-> TRUE, val |-> from_be_bytes(r.val), reader |-> r.reader]

read_be(reader, n) == read_be_value(read(reader, n))

\* read_be_u33: bit 0 of the first byte and the four bytes after it, kept as
\* the five base-256 digits of the number
read_be_u33_value(r) ==
    IF ~r.ok THEN r
    ELSE [ok |-> TRUE, val |-> <<r.val[1] % 2>> \o Tail(r.val), reader |-> r.reader]

read_be_u33(reader) == read_be_u33_value(read(reader, 5))

\* `let a = reader.read_..()?; let b = reader.read_..()?; ...`: the fields of
\* the given widths one after the other, or the error of the first failing read
RECURSIVE read_fields(_, _, _)
read_fields_next(r, widths, vals) ==
    IF ~r.ok THEN r
    ELSE read_fields(r.reader, Tail(widths), Append(vals, r.val))

read_fields(reader, widths, vals) ==
    IF widths = << >> THEN [ok |-> TRUE, val |-> vals, reader |-> reader]
    ELSE read_fields_next(read_be(reader, Head(widths)), widths, vals)

\* PgsObjectData::parse: width, height, and the rest as RLE data
PgsObjectData_fields(f) ==
    IF ~f.ok THEN f
    ELSE Ok([width |-> f.val[1], height |-> f.val[2], data |-> f.reader.slice])

PgsObjectData_parse(reader) == PgsObjectData_fields(read_fields(reader, <<2, 2>>, << >>))

\* PgSequenceDescriptor::parse on the byte read
PgSequenceDescriptor(bits) ==
    [first_in_seq |-> BitSet(bits, 7), last_in_seq |-> BitSet(bits, 6)]

\* PgVideoDescriptor::parse: FrameRate has the variants 0..6
PgVideoDescriptor_fields(f) ==
    IF ~f.ok THEN f
    ELSE IF f.val[3] \div 16 > 6
    THEN Err(MkError(f.reader.location, "UnknownFrameRate", f.val[3] \div 16))
    ELSE [ok |-> TRUE, reader |-> f.reader,
          val |-> [video_width |-> f.val[1], video_height |-> f.val[2],
                   frame_rate |-> f.val[3] \div 16]]

PgVideoDescriptor_parse(reader) ==
    PgVideoDescriptor_fields(read_fields(reader, <<2, 2, 1>>, << >>))

\* PgCompositionDescriptor::parse: PgCompositionUnitState has the variants 0..2
PgCompositionDescriptor_fields(f) ==
    IF ~f.ok THEN f
    ELSE IF f.val[2] \div 64 > 2
    THEN Err(MkError(f.reader.location, "UnknownPgCompositionUnitState",
                     f.val[2] \div 64))
    ELSE [ok |-> TRUE, reader |-> f.reader,
          val |-> [number |-> f.val[1], state |-> f.val[2] \div 64]]

PgCompositionDescriptor_parse(reader) ==
    PgCompositionDescriptor_fields(read_fields(reader, <<2, 1>>, << >>))

\* Vec::with_capacity(length)
Vec_with_capacity(length) == [capacity |-> length, bytes |-> << >>]

\* data.extend_from_slice(reader.read(min(reader.remaining_len(),
\*                                        data.capacity() - data.len()))?)
extend_fragment_replace(data, reader) ==
    [capacity |-> data.capacity,
     bytes |-> read(reader, Min(remaining_len(reader), data.capacity)).val]

extend_fragment(data, reader) ==
    [capacity |-> data.capacity,
     bytes |-> data.bytes
               \o read(reader, Min(remaining_len(reader),
                                   data.capacity - Len(data.bytes))).val]

\* a segment parser returns its Result and leaves the storage behind
PgRet(ret, storage) == [ret |-> ret, storage |-> storage]

set_obj_segments(storage, map) ==
    [pending_ig_segments |-> storage.pending_ig_segments,
     pending_obj_segments |-> map]

set_ig_segments(storage, map) ==
    [pending_ig_segments |-> map,
     pending_obj_segments |-> storage.pending_obj_segments]

\* PgsObject::parse after id, version and the sequence descriptor
PgsObject(id, version, sequence_descriptor, data) ==
    [obj |-> "PgsObject", id |-> id, version |-> version,
     sequence_descriptor |-> sequence_descriptor, data |-> data]

\* the fragment that holds or completes the data: PgsObjectData::parse(..)?
PgsObject_with_data(id, version, sd, data) ==
    IF ~data.ok THEN data ELSE Ok(PgsObject(id, version, sd, Some(data.val)))

\* (1,1): the length is read, the object data is parsed from the segment
PgsObject_single(id, version, sd, length) ==
    IF ~length.ok THEN length
    ELSE PgsObject_with_data(id, version, sd, PgsObjectData_parse(length.reader))

\* (1,0) as if a first fragment went on filling the buffer its key has
PgsObject_first_appends(id, version, sd, length, storage) ==
    IF ~length.ok THEN PgRet(length, storage)
    ELSE PgRet(Ok(PgsObject(id, version, sd, None)),
               set_obj_segments(storage,
                   insert(storage.pending_obj_segments, <<id, version>>,
                          extend_fragment(
                              IF contains_key(storage.pending_obj_segments, <<id, version>>)
                              THEN storage.pending_obj_segments[<<id, version>>]
                              ELSE Vec_with_capacity(length.val),
                              length.reader))))

\* (1,0): a buffer of the announced capacity replaces the key's buffer
PgsObject_first(id, version, sd, length, storage) ==
    IF ~length.ok THEN PgRet(length, storage)
    ELSE PgRet(Ok(PgsObject(id, version, sd, None)),
               set_obj_segments(storage,
                   insert(storage.pending_obj_segments, <<id, version>>,
                          extend_fragment(Vec_with_capacity(length.val),
                                          length.reader))))

\* (0,0): the key's buffer grows, or NonStartedPgsObject
PgsObject_middle_starts(id, version, sd, reader, storage) ==
    PgRet(Ok(PgsObject(id, version, sd, None)),
          set_obj_segments(storage,
              insert(storage.pending_obj_segments, <<id, version>>,
                     extend_fragment(
                         IF contains_key(storage.pending_obj_segments, <<id, version>>)
                         THEN storage.pending_obj_segments[<<id, version>>]
                         ELSE Vec_with_capacity(remaining_len(reader)),
                         reader))))

PgsObject_middle(id, version, sd, reader, storage) ==
    IF contains_key(storage.pending_obj_segments, <<id, version>>)
    THEN PgRet(Ok(PgsObject(id, version, sd, None)),
               set_obj_segments(storage,
                   insert(storage.pending_obj_segments, <<id, version>>,
                          extend_fragment(
                              storage.pending_obj_segments[<<id, version>>],
                              reader))))
    ELSE PgRet(Err(make_error(reader, "NonStartedPgsObject")), storage)

\* (0,1): the key's buffer is removed, grown, and parsed as the object data
PgsObject_last(id, version, sd, reader, storage) ==
    IF contains_key(storage.pending_obj_segments, <<id, version>>)
    THEN PgRet(PgsObject_with_data(id, version, sd,
                   PgsObjectData_parse(SliceReader_new(
                       extend_fragment(
                           storage.pending_obj_segments[<<id, version>>],
                           reader).bytes))),
               set_obj_segments(storage,
                   remove(storage.pending_obj_segments, <<id, version>>)))
    ELSE PgRet(Err(make_error(reader, "NonStartedPgsObject")), storage)

PgsObject_fragment(id, version, sd, reader, storage) ==
    IF sd.first_in_seq /\ sd.last_in_seq
    THEN PgRet(PgsObject_single(id, version, sd, read_be(reader, 3)), storage)
    ELSE IF sd.first_in_seq
    THEN PgsObject_first(id, version, sd, read_be(reader, 3), storage)
    ELSE IF ~sd.last_in_seq
    THEN PgsObject_middle(id, version, sd, reader, storage)
    ELSE PgsObject_last(id, version, sd, reader, storage)

PgsObject_header(h, storage) ==
    IF ~h.ok THEN PgRet(h, storage)
    ELSE PgsObject_fragment(h.val[1], h.val[2], PgSequenceDescriptor(h.val[3]),
                            h.reader, storage)

PgsObject_parse(reader, storage) ==
    PgsObject_header(read_fields(reader, <<2, 1, 1>>, << >>), storage)

\* IgPage::parse: id and version.  The units fed to this model end inside
\* these two bytes at the latest: the UoMask, the effect sequences and the
\* button groups that follow are not reached
IgPage_fields(f) ==
    CASE ~f.ok -> f

IgPage_parse(reader) == IgPage_fields(read_fields(reader, <<1, 1>>, << >>))

\* for _ in 0..num_pages { pages.push(IgPage::parse(reader)?) }
RECURSIVE ReadPages(_, _, _)
ReadPages_push(page, n, vec) ==
    IF ~page.ok THEN page ELSE ReadPages(page.reader, n - 1, Append(vec, page.val))

ReadPages(reader, n, vec) ==
    IF n = 0 THEN Ok(vec) ELSE ReadPages_push(IgPage_parse(reader), n, vec)

\* IgInteractiveComposition::parse: the model bits, both timeouts unless
\* stream_model is set, the user timeout, the pages
IgInteractiveComposition_build(model_bits, composition, selection, f, pages) ==
    IF ~pages.ok THEN pages
    ELSE Ok([stream_model |-> BitSet(model_bits, 7),
             ui_model |-> IF BitSet(model_bits, 6) THEN "Popup" ELSE "AlwaysOn",
             composition_timeout_pts |-> composition,
             selection_timeout_pts |-> selection,
             user_timeout_duration |-> f.val[1],
             pages |-> pages.val])

IgInteractiveComposition_pages(model_bits, composition, selection, f) ==
    IF ~f.ok THEN f
    ELSE IgInteractiveComposition_build(model_bits, composition, selection, f,
                                        ReadPages(f.reader, f.val[2], << >>))

IgInteractiveComposition_timeout(model_bits, composition, selection, reader) ==
    IgInteractiveComposition_pages(model_bits, composition, selection,
                                   read_fields(reader, <<3, 1>>, << >>))

IgInteractiveComposition_selection(model_bits, composition, selection) ==
    IF ~selection.ok THEN selection
    ELSE IgInteractiveComposition_timeout(model_bits, Some(composition.val),
                                          Some(selection.val), selection.reader)

IgInteractiveComposition_composition(model_bits, composition) ==
    IF ~composition.ok THEN composition
    ELSE IgInteractiveComposition_selection(model_bits, composition,
                                            read_be_u33(composition.reader))

IgInteractiveComposition_model(model_bits) ==
    IF ~model_bits.ok THEN model_bits
    ELSE IF BitSet(model_bits.val, 7)
    THEN IgInteractiveComposition_timeout(model_bits.val, None, None,
                                          model_bits.reader)
    ELSE IgInteractiveComposition_composition(model_bits.val,
                                              read_be_u33(model_bits.reader))

IgInteractiveComposition_parse(reader) ==
    IgInteractiveComposition_model(read_be(reader, 1))

\* PgsIgComposition::parse after the three descriptors
PgsIgComposition(vd, cd, sd, interactive_composition) ==
    [obj |-> "PgsIgComposition", video_descriptor |-> vd,
     composition_descriptor |-> cd, sequence_descriptor |-> sd,
     interactive_composition |-> interactive_composition]

PgsIgComposition_with_data(vd, cd, sd, ic) ==
    IF ~ic.ok THEN ic ELSE Ok(PgsIgComposition(vd, cd, sd, Some(ic.val)))

\* (1,1)
PgsIgComposition_single(vd, cd, sd, length) ==
    IF ~length.ok THEN length
    ELSE PgsIgComposition_with_data(vd, cd, sd,
                                    IgInteractiveComposition_parse(length.reader))

\* (1,0)
PgsIgComposition_first(vd, cd, sd, length, storage) ==
    IF ~length.ok THEN PgRet(length, storage)
    ELSE PgRet(Ok(PgsIgComposition(vd, cd, sd, None)),
               set_ig_segments(storage,
                   insert(storage.pending_ig_segments, cd,
                          extend_fragment(Vec_with_capacity(length.val),
                                          length.reader))))

\* (0,0)
PgsIgComposition_middle(vd, cd, sd, reader, storage) ==
    IF contains_key(storage.pending_ig_segments, cd)
    THEN PgRet(Ok(PgsIgComposition(vd, cd, sd, None)),
               set_ig_segments(storage,
                   insert(storage.pending_ig_segments, cd,
                          extend_fragment(storage.pending_ig_segments[cd], reader))))
    ELSE PgRet(Err(make_error(reader, "NonStartedPgsIgComposition")), storage)

\* (0,1)
PgsIgComposition_last(vd, cd, sd, reader, storage) ==
    IF contains_key(storage.pending_ig_segments, cd)
    THEN PgRet(PgsIgComposition_with_data(vd, cd, sd,
                   IgInteractiveComposition_parse(SliceReader_new(
                       extend_fragment(storage.pending_ig_segments[cd],
                                       reader).bytes))),
               set_ig_segments(storage, remove(storage.pending_ig_segments, cd)))
    ELSE PgRet(Err(make_error(reader, "NonStartedPgsIgComposition")), storage)

PgsIgComposition_fragment(vd, cd, sd, reader, storage) ==
    IF sd.first_in_seq /\ sd.last_in_seq
    THEN PgRet(PgsIgComposition_single(vd, cd, sd, read_be(reader, 3)), storage)
    ELSE IF sd.first_in_seq
    THEN PgsIgComposition_first(vd, cd, sd, read_be(reader, 3), storage)
    ELSE IF ~sd.last_in_seq
    THEN PgsIgComposition_middle(vd, cd, sd, reader, storage)
    ELSE PgsIgComposition_last(vd, cd, sd, reader, storage)

PgsIgComposition_sequence(vd, cd, bits, storage) ==
    IF ~bits.ok THEN PgRet(bits, storage)
    ELSE PgsIgComposition_fragment(vd, cd, PgSequenceDescriptor(bits.val),
                                   bits.reader, storage)

PgsIgComposition_composition(vd, cd, storage) ==
    IF ~cd.ok THEN PgRet(cd, storage)
    ELSE PgsIgComposition_sequence(vd, cd.val, read_be(cd.reader, 1), storage)

PgsIgComposition_video(vd, storage) ==
    IF ~vd.ok THEN PgRet(vd, storage)
    ELSE PgsIgComposition_composition(vd.val,
                                      PgCompositionDescriptor_parse(vd.reader),
                                      storage)

PgsIgComposition_parse(reader, storage) ==
    PgsIgComposition_video(PgVideoDescriptor_parse(reader), storage)

\* parse_pg_segment_data: type, length, and the segment's parser on a sub
\* reader of that length.  Of the eight known types the palette, the PG
\* composition, the window, the end of display and the two dialog segments
\* are not fed to this model
OtherPgSegmentTypes == {20, 22, 23, 128, 129, 130}

parse_pg_segment_data_type(seg_type, seg_reader, storage) ==
    CASE ~seg_reader.ok -> PgRet(seg_reader, storage)
      [] seg_reader.ok /\ seg_type = 21 -> PgsObject_parse(seg_reader.sub, storage)
      [] seg_reader.ok /\ seg_type = 24 ->
             PgsIgComposition_parse(seg_reader.sub, storage)
      [] seg_reader.ok /\ seg_type \notin {21, 24} \cup OtherPgSegmentTypes ->
             PgRet(Err(MkError(seg_reader.sub.location, "UnknownPgSegmentType",
                               seg_type)), storage)

parse_pg_segment_data_header(f, storage) ==
    IF ~f.ok THEN PgRet(f, storage)
    ELSE parse_pg_segment_data_type(f.val[1], new_sub_reader(f.reader, f.val[2]),
                                    storage)

parse_pg_segment_data(reader, storage) ==
    parse_pg_segment_data_header(read_fields(reader, <<1, 2>>, << >>), storage)

\* PgSegmentData::finish as if it decoded the segments of the unit one after
\* the other until the data is exhausted
RECURSIVE PgSegmentData_finish_all(_, _)
PgSegmentData_finish_all(data, storage) ==
    LET r == parse_pg_segment_data(SliceReader_new(data), storage)
        end == 3 + from_be_bytes(SubSeq(data, 2, 3))
    IN  IF ~r.ret.ok \/ end >= Len(data) THEN r
        ELSE PgSegmentData_finish_all(SubSeq(data, end + 1, Len(data)), r.storage)

\* PgSegmentData::finish: the raw unit data becomes the parsed segment
PgSegmentData_finish(data, storage) ==
    parse_pg_segment_data(SliceReader_new(data), storage)

(***************************************************************************)
(* The PG units fed to PgSegmentData::finish: fragments of objects and of  *)
(* IG compositions, and units that are cut short or of no known type.      *)
(***************************************************************************)
be_u16(n) == <<n \div 256, n % 256>>

be_u24(n) == <<n \div 65536, (n \div 256) % 256, n % 256>>

SequenceBits(first, last) ==
    (IF first THEN 128 ELSE 0) + (IF last THEN 64 ELSE 0)

\* a segment: type, length, body
PgSegment(seg_type, body) == <<seg_type>> \o be_u16(Len(body)) \o body

\* an object fragment; the first one carries the length of the whole data
ObjFragment(key, first, last, length, payload) ==
    PgSegment(21, be_u16(key[1]) \o <<key[2], SequenceBits(first, last)>>
                  \o (IF first THEN be_u24(length) ELSE << >>) \o payload)

\* an IG composition fragment of a 1920x1080 composition at 24000/1001 Hz
IgFragment(key, first, last, length, payload) ==
    PgSegment(24, <<7, 128, 4, 56, 16>> \o be_u16(key.number)
                  \o <<key.state * 64, SequenceBits(first, last)>>
                  \o (IF first THEN be_u24(length) ELSE << >>) \o payload)

\* the length the first fragments announce, and the most bytes the fragments
\* of the sequences under way carry together
PgMaxLength == 5

PgMaxFed == PgMaxLength + 1

PgLengths == {PgMaxLength}

\* pieces that together make the data of an object (width, height, RLE
\* bytes) and an interactive composition (stream model, timeout, pages)
PgPayloads == {<<128, 0>>, <<0, 5>>, <<0>>}

ObjKeys == {<<1, 0>>}

IgKeys == {[number |-> 1, state |-> 0]}

\* only a first fragment carries a length
FragmentsOf(kind, keys) ==
    [kind : {kind}, key : keys, first : {TRUE}, last : BOOLEAN,
     length : PgLengths, payload : PgPayloads]
    \cup [kind : {kind}, key : keys, first : {FALSE}, last : BOOLEAN,
          length : {0}, payload : PgPayloads]

PgFragments == FragmentsOf("obj", ObjKeys) \cup FragmentsOf("ig", IgKeys)

\* units that hold more than one segment: a whole object followed by the
\* first fragment of another object, and a whole object followed by a byte
PgTwoSegmentUnits ==
    {ObjFragment(<<1, 0>>, TRUE, TRUE, PgMaxLength, <<0, 1, 0, 1, 9>>)
         \o ObjFragment(<<2, 0>>, TRUE, FALSE, PgMaxLength, <<128, 0>>),
     ObjFragment(<<1, 0>>, TRUE, TRUE, PgMaxLength, <<0, 1, 0, 1, 9>>) \o <<0>>}

\* units that are not well-formed fragments: an unknown type, a segment
\* longer than its unit, an object cut inside its header, a composition
\* with an unknown frame rate and one with an unknown unit state; and the
\* units of more than one segment
PgOtherUnits ==
    {<<0, 0, 0>>, <<21, 0, 9, 0, 1>>, <<21, 0, 2, 0, 1>>,
     PgSegment(24, <<7, 128, 4, 56, 112, 0, 1, 0, 0>>),
     PgSegment(24, <<7, 128, 4, 56, 16, 0, 1, 192, 0>>)}
    \cup PgTwoSegmentUnits

PgUnit(frag) ==
    IF frag.kind = "obj"
    THEN ObjFragment(frag.key, frag.first, frag.last, frag.length, frag.payload)
    ELSE IgFragment(frag.key, frag.first, frag.last, frag.length, frag.payload)

\* pg_fed after a fragment: a first fragment that is not the last starts the
\* key's record, a later one that finds the key's buffer adds its bytes
FedKey(frag) == <<frag.kind, frag.key>>

HadBuffer(frag, storage) ==
    IF frag.kind = "obj" THEN frag.key \in DOMAIN storage.pending_obj_segments
    ELSE frag.key \in DOMAIN storage.pending_ig_segments

FedUpdate(fed, frag, storage, ret) ==
    IF frag.first /\ frag.last THEN fed
    ELSE IF frag.first
    THEN IF ret.ok
         THEN insert(fed, FedKey(frag),
                     [length |-> frag.length, bytes |-> frag.payload,
                      middles |-> 0, done |-> FALSE])
         ELSE fed
    ELSE IF ~HadBuffer(frag, storage) THEN fed
    ELSE insert(fed, FedKey(frag),
                [length |-> fed[FedKey(frag)].length,
                 bytes |-> fed[FedKey(frag)].bytes \o frag.payload,
                 middles |-> fed[FedKey(frag)].middles + (IF frag.last THEN 0 ELSE 1),
                 done |-> frag.last])

\* the record of a completed sequence is kept while the calls are about its key
PendingKeys(storage) ==
    {<<"obj", k>> : k \in DOMAIN storage.pending_obj_segments}
    \cup {<<"ig", k>> : k \in DOMAIN storage.pending_ig_segments}

FedAfter(fed, frag, storage, r) ==
    [k \in DOMAIN FedUpdate(fed, frag, storage, r.ret)
           \cap (PendingKeys(r.storage) \cup {FedKey(frag)})
       |-> FedUpdate(fed, frag, storage, r.ret)[k]]

RECURSIVE FedBytes(_)
FedBytes(fed) ==
    IF DOMAIN fed = {} THEN 0
    ELSE Len(fed[CHOOSE k \in DOMAIN fed : TRUE].bytes)
         + FedBytes(remove(fed, CHOOSE k \in DOMAIN fed : TRUE))

FedWithinBounds(fed) == FedBytes(fed) <= PgMaxFed

\* unit.finish(pid, parser) of a PG unit holding a fragment
PgFinish(frag) ==
    /\ \E r \in {PgSegmentData_finish(PgUnit(frag), app_parser_storage)} :
           /\ FedWithinBounds(FedAfter(pg_fed, frag, app_parser_storage, r))
           /\ pg_fed' = FedAfter(pg_fed, frag, app_parser_storage, r)
           /\ app_parser_storage' = r.storage
           /\ pg_result' = r.ret
    /\ pg_data' = PgUnit(frag)
    /\ storage_before' = app_parser_storage
    /\ UNCHANGED <<ts_vars, mobj_vars, cmd_vars, reader_vars>>

\* unit.finish(pid, parser) of a PG unit holding anything else
PgFinishOther(data) ==
    /\ \E r \in {PgSegmentData_finish(data, app_parser_storage)} :
           /\ app_parser_storage' = r.storage
           /\ pg_result' = r.ret
    /\ pg_data' = data
    /\ storage_before' = app_parser_storage
    /\ pg_fed' = [k \in DOMAIN pg_fed \cap PendingKeys(app_parser_storage)
                     |-> pg_fed[k]]
    /\ UNCHANGED <<ts_vars, mobj_vars, cmd_vars, reader_vars>>

NextPg ==
    \/ \E frag \in PgFragments : PgFinish(frag)
    \/ \E data \in PgOtherUnits : PgFinishOther(data)

\* nothing in the segment decoder depends on the overflow checks
InitPg == Init /\ overflow_checks

SpecPg == InitPg /\ [][NextPg]_vars

(***************************************************************************)
(* Claims about the PG fragments.                                          *)
(***************************************************************************)
PgCalled == pg_data # NoPacket

\* the last unit is an object fragment (type 0x15, with its id, version and
\* sequence byte) or a composition fragment (type 0x18, with valid
\* descriptors and its sequence byte)
IsObjFragment ==
    /\ PgCalled /\ pg_data[1] = 21
    /\ Len(pg_data) >= 7 /\ Len(pg_data) = 3 + from_be_bytes(SubSeq(pg_data, 2, 3))

IsIgFragment ==
    /\ PgCalled /\ pg_data[1] = 24
    /\ Len(pg_data) >= 12 /\ Len(pg_data) = 3 + from_be_bytes(SubSeq(pg_data, 2, 3))
    /\ pg_data[8] \div 16 <= 6 /\ pg_data[11] \div 64 <= 2

ObjKey == <<from_be_bytes(SubSeq(pg_data, 4, 5)), pg_data[6]>>

IgKey == [number |-> from_be_bytes(SubSeq(pg_data, 9, 10)), state |-> pg_data[11] \div 64]

ObjSequence == PgSequenceDescriptor(pg_data[7])

IgSequence == PgSequenceDescriptor(pg_data[12])

\* the same bytes in one (1,1) segment, finished by a parser with no
\* fragments stored
SingleObj == 
    PgSegmentData_finish(
        ObjFragment(ObjKey, TRUE, TRUE, pg_fed[<<"obj", ObjKey>>].length,
                    pg_fed[<<"obj", ObjKey>>].bytes),
        BdavParserStorage_default).ret

SingleIg == 
    PgSegmentData_finish(
        IgFragment(IgKey, TRUE, TRUE, pg_fed[<<"ig", IgKey>>].length,
                   pg_fed[<<"ig", IgKey>>].bytes),
        BdavParserStorage_default).ret

\* a (0,1) fragment found its key's buffer, and the fragments since the
\* (1,0) carried as many bytes as the (1,0) announced
ObjCompleted ==
    /\ IsObjFragment /\ ~ObjSequence.first_in_seq /\ ObjSequence.last_in_seq
    /\ ObjKey \in DOMAIN storage_before.pending_obj_segments
    /\ <<"obj", ObjKey>> \in DOMAIN pg_fed
    /\ Len(pg_fed[<<"obj", ObjKey>>].bytes) = pg_fed[<<"obj", ObjKey>>].length

IgCompleted ==
    /\ IsIgFragment /\ ~IgSequence.first_in_seq /\ IgSequence.last_in_seq
    /\ IgKey \in DOMAIN storage_before.pending_ig_segments
    /\ <<"ig", IgKey>> \in DOMAIN pg_fed
    /\ Len(pg_fed[<<"ig", IgKey>>].bytes) = pg_fed[<<"ig", IgKey>>].length

\* C13: an object delivered as fragments (1,0), (0,0)*, (0,1) under one
\* (id, version) key completes exactly when the same bytes in one (1,1)
\* segment of that total length do, and with the same object data (width,
\* height, RLE bytes); so does an IG composition under its composition
\* descriptor, with the same interactive composition
C13_FragmentsMatchSingle ==
    /\ ObjCompleted =>
           /\ pg_result.ok = SingleObj.ok
           /\ pg_result.ok => pg_result.val.data = SingleObj.val.data
    /\ IgCompleted =>
           /\ pg_result.ok = SingleIg.ok
           /\ pg_result.ok => pg_result.val.interactive_composition
                                  = SingleIg.val.interactive_composition

\* an object and a composition completed from three fragments or more
C13_Witness ==
    /\ ObjCompleted /\ pg_result.ok /\ pg_fed[<<"obj", ObjKey>>].middles >= 1
    /\ pg_result.val.data.val.data # << >>

C13_WitnessIg ==
    /\ IgCompleted /\ pg_result.ok /\ pg_fed[<<"ig", IgKey>>].middles >= 1
    /\ pg_result.val.interactive_composition.some

\* a fragment that is not the first, for a key without a stored buffer
ObjNotStarted ==
    /\ IsObjFragment /\ ~ObjSequence.first_in_seq
    /\ ObjKey \notin DOMAIN storage_before.pending_obj_segments

IgNotStarted ==
    /\ IsIgFragment /\ ~IgSequence.first_in_seq
    /\ IgKey \notin DOMAIN storage_before.pending_ig_segments

\* C14: a (0,0) or (0,1) fragment whose key has no stored buffer fails with
\* NonStartedPgsObject (objects) or NonStartedPgsIgComposition (IG
\* compositions) and leaves both fragment maps as they were, also when the
\* key's sequence was completed by an earlier (0,1) fragment
C14_NonStartedFragment ==
    /\ ObjNotStarted =>
           /\ ~pg_result.ok /\ pg_result.err.details = "NonStartedPgsObject"
           /\ app_parser_storage = storage_before
    /\ IgNotStarted =>
           /\ ~pg_result.ok /\ pg_result.err.details = "NonStartedPgsIgComposition"
           /\ app_parser_storage = storage_before

\* a fragment for a key whose sequence an earlier (0,1) completed, while the
\* other map holds a buffer
C14_Witness ==
    /\ ObjNotStarted
    /\ <<"obj", ObjKey>> \in DOMAIN pg_fed /\ pg_fed[<<"obj", ObjKey>>].done
    /\ storage_before.pending_ig_segments # EmptyMap

(***************************************************************************)
(* The MObj instruction codec (src/src/bdav/mobj.rs).  A command is its    *)
(* instruction word, held as the fields of MObjInstruction, and the words  *)
(* dst and src; a u32 is the pair <<high half, low half>> of its 16-bit    *)
(* halves.  Text is a string, its bytes are counted from 0, and a range    *)
(* <<start, end>> ends before the byte at end.                             *)
(***************************************************************************)
U32(n) == <<n \div 65536, n % 65536>>

\* the instruction enums: the mnemonic of each discriminant
GotoInstruction == [d \in 0..2 |-> <<"nop", "goto", "break">>[d + 1]]

JumpInstruction ==
    [d \in 0..4 |->
        <<"jump_object", "jump_title", "call_object", "call_title", "resume">>[d + 1]]

PlayInstruction ==
    [d \in 0..5 |->
        <<"play_pl", "play_pl_pi", "play_pl_pm", "terminate_pl", "link_pi",
          "link_mk">>[d + 1]]

CmpInstruction ==
    [d \in 1..7 |-> <<"bc", "eq", "ne", "ge", "gt", "le", "lt">>[d]]

SetInstruction ==
    [d \in 1..15 |->
        <<"move", "swap", "add", "sub", "mul", "div", "mod", "rnd", "and", "or",
          "xor", "bset", "bclr", "shl", "shr">>[d]]

SetSystemInstruction ==
    [d \in (1..11) \cup {16} |->
        IF d = 16 THEN "bd_plus_msg"
        ELSE <<"set_stream", "set_nv_timer", "set_button_page", "enable_button",
               "disable_button", "set_sec_stream", "popup_off", "still_on",
               "still_off", "set_output_mode", "set_stream_ss">>[d]]

\* MObjCmd::visit with GetCmdMnemonic, and the texts MObjCmd::mnemonic has
\* for the values no enum knows
mnemonic_of(enum, opt, bad) == IF opt \in DOMAIN enum THEN enum[opt] ELSE bad

mnemonic(cmd) ==
    CASE cmd.inst.grp = 0 /\ cmd.inst.sub_grp = 0 ->
             mnemonic_of(GotoInstruction, cmd.inst.branch_opt, "<BAD GOTO INSTRUCTION>")
      [] cmd.inst.grp = 0 /\ cmd.inst.sub_grp = 1 ->
             mnemonic_of(JumpInstruction, cmd.inst.branch_opt, "<BAD JUMP INSTRUCTION>")
      [] cmd.inst.grp = 0 /\ cmd.inst.sub_grp = 2 ->
             mnemonic_of(PlayInstruction, cmd.inst.branch_opt, "<BAD PLAY INSTRUCTION>")
      [] cmd.inst.grp = 0 /\ cmd.inst.sub_grp > 2 -> "<BAD BRANCH SUBGROUP>"
      [] cmd.inst.grp = 1 ->
             mnemonic_of(CmpInstruction, cmd.inst.cmp_opt, "<BAD CMP INSTRUCTION>")
      [] cmd.inst.grp = 2 /\ cmd.inst.sub_grp = 0 ->
             mnemonic_of(SetInstruction, cmd.inst.set_opt, "<BAD SET INSTRUCTION>")
      [] cmd.inst.grp = 2 /\ cmd.inst.sub_grp = 1 ->
             mnemonic_of(SetSystemInstruction, cmd.inst.set_opt,
                         "<BAD SETSYSTEM INSTRUCTION>")
      [] cmd.inst.grp = 2 /\ cmd.inst.sub_grp > 1 -> "<BAD SET SUBGROUP>"
      [] cmd.inst.grp = 3 -> "<BAD MOBJ GROUP>"

\* MObjOperand: Gpr(v), Psr(v), Imm(v)
Gpr(v) == [kind |-> "Gpr", v |-> v]

Psr(v) == [kind |-> "Psr", v |-> v]

Imm(v) == [kind |-> "Imm", v |-> v]

\* MObjOperand::into_val: a PSR has bit 31 set
into_val_no_flag(op) == op.v

into_val(op) ==
    IF op.kind = "Psr" THEN <<(op.v[1] % 32768) + 32768, op.v[2]>> ELSE op.v

is_imm(op) == op.kind = "Imm"

\* MObjCmd::make_operand: bit 31 tells a PSR from a GPR
make_operand_no_psr(v, is_immediate) ==
    IF is_immediate THEN Imm(v) ELSE Gpr(<<0, v[2] % 4096>>)

make_operand(v, is_immediate) ==
    IF is_immediate THEN Imm(v)
    ELSE IF v[1] < 32768 THEN Gpr(<<0, v[2] % 4096>>)
    ELSE Psr(<<0, v[2] % 128>>)

dst_operand(cmd) == make_operand(cmd.dst, cmd.inst.imm_op1)

src_operand(cmd) == make_operand(cmd.src, cmd.inst.imm_op2)

\* Display for u32: the decimal digits, most significant first
RECURSIVE fmt_u32(_, _)
fmt_u32_digit(v, rest, r) ==
    fmt_u32(<<v[1] \div 10, (r * 65536 + v[2]) \div 10>>,
            SubSeq("0123456789", ((r * 65536 + v[2]) % 10) + 1,
                   ((r * 65536 + v[2]) % 10) + 1) \o rest)

fmt_u32(v, rest) ==
    IF v = <<0, 0>> THEN (IF rest = "" THEN "0" ELSE rest)
    ELSE fmt_u32_digit(v, rest, v[1] % 10)

\* Display for MObjOperand
fmt_operand(op) ==
    CASE op.kind = "Gpr" -> "r" \o fmt_u32(op.v, "")
      [] op.kind = "Psr" -> "PSR" \o fmt_u32(op.v, "")
      [] op.kind = "Imm" -> fmt_u32(op.v, "")


\* a | b on 16-bit halves and on u32 words
RECURSIVE Or16(_, _)
Or16(a, b) ==
    IF a = 0 THEN b
    ELSE IF b = 0 THEN a
    ELSE 2 * Or16(a \div 2, b \div 2) + (IF a % 2 = 1 \/ b % 2 = 1 THEN 1 ELSE 0)

Or32(a, b) == <<Or16(a[1], b[1]), Or16(a[2], b[2])>>

\* check_set_stream_operands: an immediate paired with a register is refused
check_set_stream_operands_absent(range, op1, op2) ==
    IF (op1.some \/ op2.some)
       /\ (op1.some /\ is_imm(op1.val)) # (op2.some /\ is_imm(op2.val))
    THEN Err([range |-> range, error_type |-> "SetStreamOperandTypeMismatch"])
    ELSE Ok(<<>>)

check_set_stream_operands(range, op1, op2) ==
    IF op1.some /\ op2.some /\ is_imm(op1.val) # is_imm(op2.val)
    THEN Err([range |-> range, error_type |-> "SetStreamOperandTypeMismatch"])
    ELSE Ok(<<>>)

is_optional_operand_imm(op) == IF op.some THEN is_imm(op.val) ELSE FALSE

\* 0x8000 | (into_val & 0xfff), or 0 for an absent operand
set_stream_operand_to_val(op) ==
    IF op.some THEN <<0, Or16(32768, into_val(op.val)[2] % 4096)>> ELSE <<0, 0>>

MObjInstruction_new ==
    [op_cnt |-> 0, grp |-> 0, sub_grp |-> 0, imm_op1 |-> FALSE, imm_op2 |-> FALSE,
     branch_opt |-> 0, cmp_opt |-> 0, set_opt |-> 0]

MObjCmd(inst, dst, src) == [inst |-> inst, dst |-> dst, src |-> src]

\* the command make_set_stream_cmd builds once both pairs passed the check
set_stream_cmd(instruction, primary_audio, pg_text_st, pg_text_st_enabled, ig, angle) ==
    MObjCmd([MObjInstruction_new EXCEPT
                 !.op_cnt = 2, !.grp = 2, !.sub_grp = 1,
                 !.imm_op1 = is_optional_operand_imm(primary_audio),
                 !.imm_op2 = is_optional_operand_imm(ig),
                 !.set_opt = instruction],
            <<set_stream_operand_to_val(primary_audio)[2],
              Or16(set_stream_operand_to_val(pg_text_st)[2],
                   IF pg_text_st_enabled THEN 16384 ELSE 0)>>,
            <<set_stream_operand_to_val(ig)[2], set_stream_operand_to_val(angle)[2]>>)

make_set_stream_cmd(instruction, range1, primary_audio, pg_text_st, pg_text_st_enabled, range2, ig, angle) ==
    IF ~check_set_stream_operands(range1, primary_audio, pg_text_st).ok
    THEN check_set_stream_operands(range1, primary_audio, pg_text_st)
    ELSE IF ~check_set_stream_operands(range2, ig, angle).ok
    THEN check_set_stream_operands(range2, ig, angle)
    ELSE Ok(set_stream_cmd(instruction, primary_audio, pg_text_st,
                           pg_text_st_enabled, ig, angle))

\* 0x80000000 | (into_val & 0x3fffffff), or 0 for an absent operand
set_button_page_operand_to_val(op) ==
    IF op.some
    THEN <<Or16(32768, into_val(op.val)[1] % 16384), into_val(op.val)[2]>>
    ELSE <<0, 0>>

make_set_button_page_cmd(button, page, skip_out) ==
    Ok(MObjCmd([MObjInstruction_new EXCEPT
                    !.op_cnt = 2, !.grp = 2, !.sub_grp = 1,
                    !.imm_op1 = is_optional_operand_imm(button),
                    !.imm_op2 = is_optional_operand_imm(page),
                    !.set_opt = 3],
               set_button_page_operand_to_val(button),
               Or32(set_button_page_operand_to_val(page),
                    IF skip_out THEN <<16384, 0>> ELSE <<0, 0>>)))

\* an operand of a set_stream or set_button_page command as the formatter
\* writes it: "none" unless the operand's flag is set
fmt_optional(flag, v, is_immediate) ==
    IF flag THEN fmt_operand(make_operand(v, is_immediate)) ELSE "none"

fmt_set_stream(cmd) ==
    mnemonic(cmd) \o " "
    \o fmt_optional(BitSet(cmd.dst[1], 15), <<0, cmd.dst[1] % 4096>>, cmd.inst.imm_op1)
    \o ", "
    \o fmt_optional(BitSet(cmd.dst[2], 15), <<0, cmd.dst[2] % 4096>>, cmd.inst.imm_op1)
    \o ", "
    \o (IF BitSet(cmd.dst[2], 14) THEN "enabled" ELSE "disabled")
    \o ", "
    \o fmt_optional(BitSet(cmd.src[1], 15), <<0, cmd.src[1] % 4096>>, cmd.inst.imm_op2)
    \o ", "
    \o fmt_optional(BitSet(cmd.src[2], 15), <<0, cmd.src[2] % 4096>>, cmd.inst.imm_op2)

fmt_set_button_page(cmd) ==
    mnemonic(cmd) \o " "
    \o fmt_optional(BitSet(cmd.dst[1], 15), <<cmd.dst[1] % 16384, cmd.dst[2]>>,
                    cmd.inst.imm_op1)
    \o ", "
    \o fmt_optional(BitSet(cmd.src[1], 15), <<cmd.src[1] % 16384, cmd.src[2]>>,
                    cmd.inst.imm_op2)
    \o (IF BitSet(cmd.src[1], 14) THEN ", skip_out" ELSE "")

fmt_operands(cmd) ==
    CASE cmd.inst.op_cnt = 0 -> mnemonic(cmd)
      [] cmd.inst.op_cnt = 1 -> mnemonic(cmd) \o " " \o fmt_operand(dst_operand(cmd))
      [] OTHER -> mnemonic(cmd) \o " " \o fmt_operand(dst_operand(cmd))
                  \o ", " \o fmt_operand(src_operand(cmd))

\* Display for MObjCmd (format_cmd!): fmt::Error for a group, a set
\* sub-group or a set-system instruction no enum knows
format_cmd(cmd) ==
    CASE cmd.inst.grp = 3 -> Err("fmt::Error")
      [] cmd.inst.grp = 2 /\ cmd.inst.sub_grp > 1 -> Err("fmt::Error")
      [] cmd.inst.grp = 2 /\ cmd.inst.sub_grp = 1
         /\ cmd.inst.set_opt \notin DOMAIN SetSystemInstruction -> Err("fmt::Error")
      [] cmd.inst.grp = 2 /\ cmd.inst.sub_grp = 1 /\ cmd.inst.set_opt \in {1, 11} ->
             Ok(fmt_set_stream(cmd))
      [] cmd.inst.grp = 2 /\ cmd.inst.sub_grp = 1 /\ cmd.inst.set_opt = 3 ->
             Ok(fmt_set_button_page(cmd))
      [] OTHER -> Ok(fmt_operands(cmd))


(***************************************************************************)
(* MObjCmd::parse: 12 bytes of bytecode.                                   *)
(***************************************************************************)
\* MObjInstruction::from_bytes: op_cnt 3 bits, grp 2, sub_grp 3; imm_op1,
\* imm_op2, 2 bits skipped, branch_opt 4; 4 skipped, cmp_opt 4; 3 skipped,
\* set_opt 5
MObjInstruction_from_bytes(b) ==
    [op_cnt |-> b[1] \div 32, grp |-> (b[1] \div 8) % 4, sub_grp |-> b[1] % 8,
     imm_op1 |-> b[2] \div 128 = 1, imm_op2 |-> (b[2] \div 64) % 2 = 1,
     branch_opt |-> b[2] % 16, cmp_opt |-> b[3] % 16, set_opt |-> b[4] % 32]

\* read_be_u32, as the pair of its 16-bit halves
read_be_u32_value(r) ==
    IF ~r.ok THEN r
    ELSE [ok |-> TRUE,
          val |-> <<from_be_bytes(SubSeq(r.val, 1, 2)), from_be_bytes(SubSeq(r.val, 3, 4))>>,
          reader |-> r.reader]

read_be_u32(reader) == read_be_u32_value(read(reader, 4))

MObjCmdErrorDetails(details, v) == [details |-> details, arg |-> v]

\* from_primitive_map_err(v, err_fn) for an enum with the given discriminants
from_primitive_map_err(enum, v, details) ==
    IF v \in enum THEN Ok(v) ELSE Err(MObjCmdErrorDetails(details, v))

\* MObjCmd::visit as if the instruction field were resolved before the
\* sub-group
visit_option_first(cmd) ==
    CASE cmd.inst.grp = 3 -> Err(MObjCmdErrorDetails("UnknownMObjGroup", 3))
      [] cmd.inst.grp = 0 /\ cmd.inst.branch_opt > 5 ->
             Err(MObjCmdErrorDetails("UnknownPlayInstruction", cmd.inst.branch_opt))
      [] cmd.inst.grp = 0 /\ cmd.inst.branch_opt <= 5 /\ cmd.inst.sub_grp > 2 ->
             Err(MObjCmdErrorDetails("UnknownBranchSubGroup", cmd.inst.sub_grp))
      [] cmd.inst.grp = 0 /\ cmd.inst.branch_opt <= 5 /\ cmd.inst.sub_grp = 0 ->
             from_primitive_map_err(DOMAIN GotoInstruction, cmd.inst.branch_opt,
                                    "UnknownGotoInstruction")
      [] cmd.inst.grp = 0 /\ cmd.inst.branch_opt <= 5 /\ cmd.inst.sub_grp = 1 ->
             from_primitive_map_err(DOMAIN JumpInstruction, cmd.inst.branch_opt,
                                    "UnknownJumpInstruction")
      [] cmd.inst.grp = 0 /\ cmd.inst.branch_opt <= 5 /\ cmd.inst.sub_grp = 2 ->
             from_primitive_map_err(DOMAIN PlayInstruction, cmd.inst.branch_opt,
                                    "UnknownPlayInstruction")
      [] cmd.inst.grp = 1 ->
             from_primitive_map_err(DOMAIN CmpInstruction, cmd.inst.cmp_opt,
                                    "UnknownCmpInstruction")
      [] cmd.inst.grp = 2 /\ cmd.inst.set_opt \notin DOMAIN SetSystemInstruction
                              \cup DOMAIN SetInstruction ->
             Err(MObjCmdErrorDetails("UnknownSetInstruction", cmd.inst.set_opt))
      [] cmd.inst.grp = 2 /\ cmd.inst.set_opt \in DOMAIN SetSystemInstruction
                              \cup DOMAIN SetInstruction /\ cmd.inst.sub_grp > 1 ->
             Err(MObjCmdErrorDetails("UnknownSetSubGroup", cmd.inst.sub_grp))
      [] cmd.inst.grp = 2 /\ cmd.inst.set_opt \in DOMAIN SetSystemInstruction
                              \cup DOMAIN SetInstruction /\ cmd.inst.sub_grp = 0 ->
             from_primitive_map_err(DOMAIN SetInstruction, cmd.inst.set_opt,
                                    "UnknownSetInstruction")
      [] cmd.inst.grp = 2 /\ cmd.inst.set_opt \in DOMAIN SetSystemInstruction
                              \cup DOMAIN SetInstruction /\ cmd.inst.sub_grp = 1 ->
             from_primitive_map_err(DOMAIN SetSystemInstruction, cmd.inst.set_opt,
                                    "UnknownSetSystemInstruction")

\* MObjCmd::visit with CmdValidate: the group, then the sub-group, then the
\* instruction field of that sub-group
visit(cmd) ==
    CASE cmd.inst.grp = 3 -> Err(MObjCmdErrorDetails("UnknownMObjGroup", 3))
      [] cmd.inst.grp = 0 /\ cmd.inst.sub_grp > 2 ->
             Err(MObjCmdErrorDetails("UnknownBranchSubGroup", cmd.inst.sub_grp))
      [] cmd.inst.grp = 0 /\ cmd.inst.sub_grp = 0 ->
             from_primitive_map_err(DOMAIN GotoInstruction, cmd.inst.branch_opt,
                                    "UnknownGotoInstruction")
      [] cmd.inst.grp = 0 /\ cmd.inst.sub_grp = 1 ->
             from_primitive_map_err(DOMAIN JumpInstruction, cmd.inst.branch_opt,
                                    "UnknownJumpInstruction")
      [] cmd.inst.grp = 0 /\ cmd.inst.sub_grp = 2 ->
             from_primitive_map_err(DOMAIN PlayInstruction, cmd.inst.branch_opt,
                                    "UnknownPlayInstruction")
      [] cmd.inst.grp = 1 ->
             from_primitive_map_err(DOMAIN CmpInstruction, cmd.inst.cmp_opt,
                                    "UnknownCmpInstruction")
      [] cmd.inst.grp = 2 /\ cmd.inst.sub_grp > 1 ->
             Err(MObjCmdErrorDetails("UnknownSetSubGroup", cmd.inst.sub_grp))
      [] cmd.inst.grp = 2 /\ cmd.inst.sub_grp = 0 ->
             from_primitive_map_err(DOMAIN SetInstruction, cmd.inst.set_opt,
                                    "UnknownSetInstruction")
      [] cmd.inst.grp = 2 /\ cmd.inst.sub_grp = 1 ->
             from_primitive_map_err(DOMAIN SetSystemInstruction, cmd.inst.set_opt,
                                    "UnknownSetSystemInstruction")

validate(cmd) == visit(cmd)

\* new_cmd.validate().map_err(|e| reader.make_error(BadMObjCommand(e)))?
MObjCmd_validated(cmd, reader) ==
    IF validate(cmd).ok THEN [ok |-> TRUE, val |-> cmd, reader |-> reader]
    ELSE [ok |-> FALSE,
          err |-> MkError(reader.location, "BadMObjCommand", validate(cmd).err),
          reader |-> reader]

MObjCmd_parse_src(inst, dst, src) ==
    IF ~src.ok THEN src
    ELSE MObjCmd_validated(MObjCmd(MObjInstruction_from_bytes(inst.val), dst.val, src.val),
                           src.reader)

MObjCmd_parse_dst(inst, dst) ==
    IF ~dst.ok THEN dst ELSE MObjCmd_parse_src(inst, dst, read_be_u32(dst.reader))

MObjCmd_parse_inst(inst) ==
    IF ~inst.ok THEN inst ELSE MObjCmd_parse_dst(inst, read_be_u32(inst.reader))

\* MObjCmd::parse(reader)
MObjCmd_parse(reader) == MObjCmd_parse_inst(read(reader, 4))

(***************************************************************************)
(* The assembler, MObjCmd::assemble.  Its grammar is generated at build    *)
(* time from a grammar file; what follows is the grammar as the            *)
(* specification gives it and as the tests of mobj.rs observe it: a        *)
(* mnemonic, its operands separated by commas, blanks and block comments   *)
(* between the tokens, a register as its prefix directly followed by its   *)
(* number, and an out-of-range error at the bytes of the number.           *)
(***************************************************************************)
DecDigits == "0123456789"

HexDigits == "0123456789abcdef"

Letters == "abcdefghijklmnopqrstuvwxyz_PSR"

\* the byte of text s at offset p, "" past the end
At(s, p) == IF p < Len(s) THEN SubSeq(s, p + 1, p + 1) ELSE ""

InString(c, chars) == c # "" /\ \E i \in 1..Len(chars) : SubSeq(chars, i, i) = c

DigitValue(c) == CHOOSE d \in 0..15 : SubSeq(HexDigits, d + 1, d + 1) = c

\* the offset after the longest run of the given characters from offset p
RECURSIVE run_end(_, _, _)
run_end(s, p, chars) ==
    IF InString(At(s, p), chars) THEN run_end(s, p + 1, chars) ELSE p

\* the offset after the comment whose body starts at p, 0 when it never ends
RECURSIVE comment_end(_, _)
comment_end(s, p) ==
    IF p + 2 > Len(s) THEN 0
    ELSE IF SubSeq(s, p + 1, p + 2) = "*/" THEN p + 2
    ELSE comment_end(s, p + 1)

RECURSIVE skip_blank(_, _)
skip_blank(s, p) ==
    IF At(s, p) = " " THEN skip_blank(s, p + 1)
    ELSE IF p + 2 <= Len(s) /\ SubSeq(s, p + 1, p + 2) = "/*"
            /\ comment_end(s, p + 2) # 0
    THEN skip_blank(s, comment_end(s, p + 2))
    ELSE p

\* a number: decimal digits, or 0x and hexadecimal digits
number_end(s, p) ==
    IF At(s, p) = "0" /\ At(s, p + 1) = "x" /\ InString(At(s, p + 2), HexDigits)
    THEN run_end(s, p + 2, HexDigits)
    ELSE run_end(s, p, DecDigits)

\* u32::from_str_radix: None when the value does not fit 32 bits
RECURSIVE parse_u32(_, _, _)
parse_u32_next(digits, radix, lo, hi) ==
    IF hi + lo \div 65536 >= 65536 THEN None
    ELSE parse_u32(Tail(digits), radix, <<hi + lo \div 65536, lo % 65536>>)

parse_u32(digits, radix, acc) ==
    IF digits = "" THEN Some(acc)
    ELSE parse_u32_next(digits, radix, acc[2] * radix + DigitValue(Head(digits)),
                        acc[1] * radix)

number_value(lexeme) ==
    IF Len(lexeme) > 2 /\ SubSeq(lexeme, 1, 2) = "0x"
    THEN parse_u32(SubSeq(lexeme, 3, Len(lexeme)), 16, <<0, 0>>)
    ELSE parse_u32(lexeme, 10, <<0, 0>>)

\* a token: its kind, its range start..end and, for a register or a
\* number, the offset number_start where the number begins
Token(kind, start, end, number_start) ==
    [kind |-> kind, start |-> start, end |-> end, number_start |-> number_start]

Lexeme(s, tok) == SubSeq(s, tok.start + 1, tok.end)

word_token(s, p, end) ==
    IF SubSeq(s, p + 1, end) = "r" /\ InString(At(s, end), DecDigits)
    THEN Token("gpr", p, number_end(s, end), end)
    ELSE IF SubSeq(s, p + 1, end) = "PSR" /\ InString(At(s, end), DecDigits)
    THEN Token("psr", p, number_end(s, end), end)
    ELSE Token("word", p, end, end)

token_at(s, p) ==
    CASE p >= Len(s) -> Token("eof", p, p, p)
      [] At(s, p) = "," -> Token(",", p, p + 1, p)
      [] InString(At(s, p), DecDigits) -> Token("imm", p, number_end(s, p), p)
      [] InString(At(s, p), Letters) -> word_token(s, p, run_end(s, p, Letters))
      [] OTHER -> Token("invalid", p, p, p)

next_token(s, p) == token_at(s, skip_blank(s, p))

MObjParseError(error_type, start, end) ==
    Err([range |-> <<start, end>>, error_type |-> error_type])

\* the lexer's and the parser's own errors
syntax_error(tok) ==
    CASE tok.kind = "invalid" -> MObjParseError("InvalidToken", tok.start, tok.start)
      [] tok.kind = "eof" -> MObjParseError("UnrecognizedEof", tok.start, tok.start)
      [] OTHER -> MObjParseError("UnrecognizedToken", tok.start, tok.end)

\* the operand a register or number token stands for; an out-of-range
\* error is at the number alone
operand_in_range_whole(tok, v) ==
    CASE ~v.some -> MObjParseError("U32OutOfRange", tok.start, tok.end)
      [] tok.kind = "gpr" /\ (v.val[1] > 0 \/ v.val[2] > 4095) ->
             MObjParseError("GprOutOfRange", tok.start, tok.end)
      [] tok.kind = "psr" /\ (v.val[1] > 0 \/ v.val[2] > 127) ->
             MObjParseError("PsrOutOfRange", tok.start, tok.end)
      [] tok.kind = "gpr" -> Ok(Some(Gpr(v.val)))
      [] tok.kind = "psr" -> Ok(Some(Psr(v.val)))
      [] OTHER -> Ok(Some(Imm(v.val)))

operand_in_range(tok, v) ==
    CASE ~v.some -> MObjParseError("U32OutOfRange", tok.number_start, tok.end)
      [] tok.kind = "gpr" /\ (v.val[1] > 0 \/ v.val[2] > 4095) ->
             MObjParseError("GprOutOfRange", tok.number_start, tok.end)
      [] tok.kind = "psr" /\ (v.val[1] > 0 \/ v.val[2] > 127) ->
             MObjParseError("PsrOutOfRange", tok.number_start, tok.end)
      [] tok.kind = "gpr" -> Ok(Some(Gpr(v.val)))
      [] tok.kind = "psr" -> Ok(Some(Psr(v.val)))
      [] OTHER -> Ok(Some(Imm(v.val)))

operand_of(s, tok) ==
    operand_in_range(tok, number_value(SubSeq(s, tok.number_start + 1, tok.end)))

\* the value of one operand slot: "operand" takes a register or a number,
\* "optional" also none, "enabled" takes enabled or disabled
slot_value(s, tok, slot) ==
    CASE tok.kind \in {"imm", "gpr", "psr"} /\ slot \in {"operand", "optional"} ->
             operand_of(s, tok)
      [] tok.kind = "word" /\ slot = "optional" /\ Lexeme(s, tok) = "none" -> Ok(None)
      [] tok.kind = "word" /\ slot = "enabled"
         /\ Lexeme(s, tok) \in {"enabled", "disabled"} ->
             Ok(Lexeme(s, tok) = "enabled")
      [] OTHER -> syntax_error(tok)

RECURSIVE parse_slots(_, _, _, _)
parse_slot_value(s, tok, slots, vals, v) ==
    IF ~v.ok THEN v
    ELSE parse_slots(s, tok.end, Tail(slots),
                     Append(vals, [val |-> v.val, start |-> tok.start,
                                   end |-> tok.end]))

parse_slot(s, tok, slots, vals) ==
    parse_slot_value(s, tok, slots, vals, slot_value(s, tok, Head(slots)))

parse_comma(s, tok, slots, vals) ==
    IF tok.kind = "," THEN parse_slot(s, next_token(s, tok.end), slots, vals)
    ELSE syntax_error(tok)

parse_slots(s, p, slots, vals) ==
    IF slots = <<>> THEN Ok([vals |-> vals, end |-> p])
    ELSE IF vals = <<>> THEN parse_slot(s, next_token(s, p), slots, vals)
    ELSE parse_comma(s, next_token(s, p), slots, vals)

\* the mnemonics and their encodings: group, sub-group and option
Encodings ==
    {[name |-> GotoInstruction[d], grp |-> 0, sub_grp |-> 0, opt |-> d] :
        d \in DOMAIN GotoInstruction}
    \cup {[name |-> JumpInstruction[d], grp |-> 0, sub_grp |-> 1, opt |-> d] :
        d \in DOMAIN JumpInstruction}
    \cup {[name |-> PlayInstruction[d], grp |-> 0, sub_grp |-> 2, opt |-> d] :
        d \in DOMAIN PlayInstruction}
    \cup {[name |-> CmpInstruction[d], grp |-> 1, sub_grp |-> 0, opt |-> d] :
        d \in DOMAIN CmpInstruction}
    \cup {[name |-> SetInstruction[d], grp |-> 2, sub_grp |-> 0, opt |-> d] :
        d \in DOMAIN SetInstruction}
    \cup {[name |-> SetSystemInstruction[d], grp |-> 2, sub_grp |-> 1, opt |-> d] :
        d \in DOMAIN SetSystemInstruction}

Mnemonics == {e.name : e \in Encodings}

EncodingOf(name) == CHOOSE e \in Encodings : e.name = name

\* the operands each mnemonic takes
NoOperand ==
    {"nop", "break", "resume", "terminate_pl", "popup_off", "still_on", "still_off"}

OneOperand ==
    {"goto", "jump_object", "jump_title", "call_object", "call_title", "play_pl",
     "link_pi", "link_mk", "enable_button", "disable_button", "set_output_mode"}

SetStreams == {"set_stream", "set_stream_ss"}

TwoOperands == Mnemonics \ (NoOperand \cup OneOperand \cup SetStreams \cup {"set_button_page"})

OperandSlots(name) ==
    CASE name \in NoOperand -> <<>>
      [] name \in OneOperand -> <<"operand">>
      [] name \in SetStreams -> <<"optional", "optional", "enabled", "optional", "optional">>
      [] name = "set_button_page" -> <<"optional", "optional">>
      [] OTHER -> <<"operand", "operand">>

\* the command of a mnemonic with up to two plain operands
with_opt(inst, e) ==
    CASE e.grp = 0 -> [inst EXCEPT !.branch_opt = e.opt]
      [] e.grp = 1 -> [inst EXCEPT !.cmp_opt = e.opt]
      [] OTHER -> [inst EXCEPT !.set_opt = e.opt]

make_cmd_operands(e, dst, src, op_cnt) ==
    MObjCmd(with_opt([MObjInstruction_new EXCEPT
                          !.op_cnt = op_cnt, !.grp = e.grp, !.sub_grp = e.sub_grp,
                          !.imm_op1 = is_optional_operand_imm(dst),
                          !.imm_op2 = is_optional_operand_imm(src)], e),
            IF dst.some THEN into_val(dst.val) ELSE <<0, 0>>,
            IF src.some THEN into_val(src.val) ELSE <<0, 0>>)

make_cmd(name, vals, skip_out) ==
    CASE name \in SetStreams ->
             make_set_stream_cmd(EncodingOf(name).opt,
                                 <<vals[1].start, vals[2].end>>, vals[1].val,
                                 vals[2].val, vals[3].val,
                                 <<vals[4].start, vals[5].end>>, vals[4].val,
                                 vals[5].val)
      [] name = "set_button_page" ->
             make_set_button_page_cmd(vals[1].val, vals[2].val, skip_out)
      [] Len(vals) = 0 -> Ok(make_cmd_operands(EncodingOf(name), None, None, 0))
      [] Len(vals) = 1 -> Ok(make_cmd_operands(EncodingOf(name), vals[1].val, None, 1))
      [] OTHER -> Ok(make_cmd_operands(EncodingOf(name), vals[1].val, vals[2].val, 2))

assemble_end(name, vals, skip_out, tok) ==
    IF tok.kind # "eof" THEN syntax_error(tok) ELSE make_cmd(name, vals, skip_out)

assemble_skip_out(s, name, vals, tok) ==
    IF tok.kind = "word" /\ Lexeme(s, tok) = "skip_out"
    THEN assemble_end(name, vals, TRUE, next_token(s, tok.end))
    ELSE syntax_error(tok)

assemble_tail(s, name, vals, tok) ==
    IF name = "set_button_page" /\ tok.kind = ","
    THEN assemble_skip_out(s, name, vals, next_token(s, tok.end))
    ELSE assemble_end(name, vals, FALSE, tok)

assemble_parsed(s, name, r) ==
    IF ~r.ok THEN r ELSE assemble_tail(s, name, r.val.vals, next_token(s, r.val.end))

assemble_mnemonic(s, tok) ==
    IF tok.kind # "word" \/ Lexeme(s, tok) \notin Mnemonics THEN syntax_error(tok)
    ELSE assemble_parsed(s, Lexeme(s, tok),
                         parse_slots(s, tok.end, OperandSlots(Lexeme(s, tok)), <<>>))

assemble(s) == assemble_mnemonic(s, next_token(s, 0))


(***************************************************************************)
(* The assembly strings of the model: every mnemonic with the operands it  *)
(* takes, registers and numbers on both sides of each limit, hexadecimal   *)
(* numbers, a comment, and strings the grammar refuses.                    *)
(***************************************************************************)
CanonicalOperands ==
    {"r1", "r4095", "r4096", "PSR1", "PSR127", "PSR128", "16", "4294967295",
     "4294967296", "999999999999"}

PlainOperands ==
    CanonicalOperands \cup {"0x10", "r0x10", "PSR0x10", "-1", "/* some comment */ 1"}

PairOperands == {"r1", "PSR127", "16", "4294967295"}

AudioPgOperands == {"none", "r1", "2", "PSR3", "4097"}

IgAngleOperands == {"none", "r3", "4"}

ButtonPageOperands == {"none", "r1", "PSR2", "7", "1073741824"}

NoOperandTexts == NoOperand

OneOperandTexts(operands) == {m \o " " \o a : m \in OneOperand, a \in operands}

TwoOperandTexts == {m \o " " \o a \o ", " \o b : m \in TwoOperands, a, b \in PairOperands}

SetStreamText(m, audio, pg, enabled, ig, angle) ==
    m \o " " \o audio \o ", " \o pg \o ", " \o enabled \o ", " \o ig \o ", " \o angle

SetStreamTexts ==
    {SetStreamText(m, q[1], q[2], e, q[3], q[4]) :
        m \in SetStreams, e \in {"enabled", "disabled"},
        q \in AudioPgOperands \X AudioPgOperands \X IgAngleOperands \X IgAngleOperands}

ButtonPageText(button, page, skip_out) ==
    "set_button_page " \o button \o ", " \o page \o skip_out

ButtonPageTexts ==
    {ButtonPageText(a, b, k) :
        a, b \in ButtonPageOperands, k \in {"", ", skip_out"}}

MalformedTexts == {"goto", "nop 1", "bogus r1", "goto r1,", "move r1 r2", "goto /* 1"}

\* the strings in the canonical form of the assembler
CanonicalTexts ==
    NoOperandTexts \cup OneOperandTexts(CanonicalOperands) \cup TwoOperandTexts
    \cup SetStreamTexts \cup ButtonPageTexts

MObjTexts == CanonicalTexts \cup OneOperandTexts(PlainOperands) \cup MalformedTexts

\* MObjCmd::assemble(s)
Assemble ==
    /\ mobj_text # ""
    /\ mobj_cmd = None
    /\ mobj_cmd' = Some(assemble(mobj_text))
    /\ UNCHANGED <<ts_vars, pg_vars, cmd_vars, reader_vars, mobj_text, mobj_formatted, mobj_reassembled>>

\* cmd.to_string()
Format ==
    /\ mobj_cmd.some
    /\ mobj_cmd.val.ok
    /\ mobj_formatted = None
    /\ mobj_formatted' = Some(format_cmd(mobj_cmd.val.val))
    /\ UNCHANGED <<ts_vars, pg_vars, cmd_vars, reader_vars, mobj_text, mobj_cmd, mobj_reassembled>>

\* MObjCmd::assemble(&formatted)
Reassemble ==
    /\ mobj_formatted.some
    /\ mobj_formatted.val.ok
    /\ mobj_reassembled = None
    /\ mobj_reassembled' = Some(assemble(mobj_formatted.val.val))
    /\ UNCHANGED <<ts_vars, pg_vars, cmd_vars, reader_vars, mobj_text, mobj_cmd, mobj_formatted>>

NextMObj ==
    \/ Assemble
    \/ Format
    \/ Reassemble

\* nothing in the codec depends on the overflow checks
InitMObj ==
    /\ ParserIdle
    /\ overflow_checks
    /\ PgIdle
    /\ mobj_text \in MObjTexts
    /\ mobj_cmd = None
    /\ mobj_formatted = None
    /\ mobj_reassembled = None
    /\ CmdIdle
    /\ ReaderIdle

SpecMObj == InitMObj /\ [][NextMObj]_vars


(***************************************************************************)
(* The bytecode parser: MObjCmd::parse on a reader over the bytes, then    *)
(* the Display of the command it returned.                                 *)
(***************************************************************************)
\* the four bytes of an instruction word; skipped holds the bits of the
\* three paddings
InstructionWord(op_cnt, grp, sub_grp, imm, skipped, branch_opt, cmp_opt, set_opt) ==
    <<op_cnt * 32 + grp * 8 + sub_grp,
      imm * 64 + skipped[1] * 16 + branch_opt,
      skipped[2] * 16 + cmp_opt,
      skipped[3] * 32 + set_opt>>

\* operand counts, immediate flags, padding bits and operands: a command
\* without operands, and one with two operands, its padding bits set
CmdShapes ==
    {[op_cnt |-> 0, imm |-> 0, skipped |-> <<0, 0, 0>>,
      dst |-> <<0, 0, 0, 0>>, src |-> <<0, 0, 0, 0>>],
     [op_cnt |-> 2, imm |-> 2, skipped |-> <<3, 15, 7>>,
      dst |-> <<128, 0, 0, 3>>, src |-> <<255, 255, 255, 255>>]}

BranchOptions == {0, 2, 3, 4, 5, 6, 15}

CmpOptions == {0, 1, 7, 8}

SetOptions == {0, 1, 11, 12, 15, 16, 17, 31}

CmdWords ==
    {InstructionWord(k.op_cnt, grp, sub_grp, k.imm, k.skipped, b, c, s) \o k.dst \o k.src :
        k \in CmdShapes, grp \in 0..3, sub_grp \in 0..7,
        b \in BranchOptions, c \in CmpOptions, s \in SetOptions}

\* a reader that ends inside the command, one that goes on after it
CmdOtherInputs ==
    {<<0, 0, 0, 0, 0, 0, 0, 0, 0, 0, 0>>, <<0, 0, 0>>,
     <<192, 0, 0, 0, 0, 0, 0, 0, 0, 0, 0>>,
     <<33, 1, 0, 0, 0, 0, 0, 7, 0, 0, 0, 0, 9>>}

CmdInputs == CmdWords \cup CmdOtherInputs

\* MObjCmd::parse(&mut SliceReader::new(&bytes))
ParseCmd ==
    /\ cmd_parsed = None
    /\ cmd_parsed' = Some(MObjCmd_parse(SliceReader_new(cmd_bytes)))
    /\ UNCHANGED <<ts_vars, pg_vars, mobj_vars, reader_vars, cmd_bytes, cmd_formatted>>

\* format!("{}", cmd)
FormatCmd ==
    /\ cmd_parsed.some
    /\ cmd_parsed.val.ok
    /\ cmd_formatted = None
    /\ cmd_formatted' = Some(format_cmd(cmd_parsed.val.val))
    /\ UNCHANGED <<ts_vars, pg_vars, mobj_vars, reader_vars, cmd_bytes, cmd_parsed>>

NextCmd ==
    \/ ParseCmd
    \/ FormatCmd

InitCmd ==
    /\ ParserIdle
    /\ overflow_checks
    /\ PgIdle
    /\ MObjIdle
    /\ cmd_bytes \in CmdInputs
    /\ cmd_parsed = None
    /\ cmd_formatted = None
    /\ ReaderIdle

SpecCmd == InitCmd /\ [][NextCmd]_vars

(***************************************************************************)
(* The slice readers: a reader over a slice, the sub reader last taken     *)
(* from it, and calls of read, skip and peek on either.  A call that       *)
(* returns an error has not assigned to the fields of its reader.          *)
(***************************************************************************)
MaxReaderLen == 4

\* bytes that differ from each other
ReaderBytes == [i \in 1..MaxReaderLen |-> 9 + i]

ReaderLengths == 0..(MaxReaderLen + 1)

\* the reader a call is made on
ReaderOn(on) == IF on = "parent" THEN rd_parent ELSE rd_sub

\* the reader after a call that returned r
ReaderAfter(reader, r) == IF r.ok THEN r.reader ELSE reader

\* the call, its result and the readers before it
ReaderCalled(op, on, length, r) ==
    /\ rd_call' = Some([op |-> op, on |-> on, length |-> length])
    /\ rd_ret' = Some(r)
    /\ rd_parent_before' = rd_parent
    /\ rd_sub_before' = rd_sub

\* the call left the reader it was made on as after, and the other as it was
ReaderLeft(on, after) ==
    IF on = "parent"
    THEN rd_parent' = Some(after) /\ UNCHANGED rd_sub
    ELSE rd_sub' = Some(after) /\ UNCHANGED rd_parent

\* reader.read(length)
ReaderRead(on, length) ==
    /\ ReaderOn(on).some
    /\ \E r \in {read(ReaderOn(on).val, length)} :
           /\ ReaderLeft(on, ReaderAfter(ReaderOn(on).val, r))
           /\ ReaderCalled("read", on, length, r)
    /\ UNCHANGED <<ts_vars, pg_vars, mobj_vars, cmd_vars>>

\* reader.skip(length)
ReaderSkip(on, length) ==
    /\ ReaderOn(on).some
    /\ \E r \in {skip(ReaderOn(on).val, length)} :
           /\ ReaderLeft(on, ReaderAfter(ReaderOn(on).val, r))
           /\ ReaderCalled("skip", on, length, r)
    /\ UNCHANGED <<ts_vars, pg_vars, mobj_vars, cmd_vars>>

\* reader.peek(length)
ReaderPeek(on, length) ==
    /\ ReaderOn(on).some
    /\ \E r \in {peek(ReaderOn(on).val, length)} :
           /\ ReaderLeft(on, ReaderAfter(ReaderOn(on).val, r))
           /\ ReaderCalled("peek", on, length, r)
    /\ UNCHANGED <<ts_vars, pg_vars, mobj_vars, cmd_vars>>

\* parent.new_sub_reader(length): the sub reader it returns takes the place
\* of the one at hand
ReaderNewSub(length) ==
    /\ \E r \in {new_sub_reader(rd_parent.val, length)} :
           /\ rd_parent' = Some(ReaderAfter(rd_parent.val, r))
           /\ rd_sub' = IF r.ok THEN Some(r.sub) ELSE rd_sub
           /\ ReaderCalled("new_sub_reader", "parent", length, r)
    /\ UNCHANGED <<ts_vars, pg_vars, mobj_vars, cmd_vars>>

NextReader ==
    \/ \E on \in {"parent", "sub"}, length \in ReaderLengths : ReaderRead(on, length)
    \/ \E on \in {"parent", "sub"}, length \in ReaderLengths : ReaderSkip(on, length)
    \/ \E on \in {"parent", "sub"}, length \in ReaderLengths : ReaderPeek(on, length)
    \/ \E length \in ReaderLengths : ReaderNewSub(length)

\* SliceReader::new(&bytes)
InitReader ==
    /\ ParserIdle
    /\ overflow_checks
    /\ PgIdle
    /\ MObjIdle
    /\ CmdIdle
    /\ rd_parent = Some(SliceReader_new(ReaderBytes))
    /\ rd_sub = None
    /\ rd_call = None
    /\ rd_ret = None
    /\ rd_parent_before = None
    /\ rd_sub_before = None

SpecReader == InitReader /\ [][NextReader]_vars

(***************************************************************************)
(* Claims about the MObj codec.                                            *)
(***************************************************************************)
Assembled == mobj_cmd.some /\ mobj_cmd.val.ok

Reassembled == mobj_reassembled.some

\* C15: a string in the canonical form of the assembler that assembles is
\* given back exactly by formatting the assembled command
C15_FormatGivesBackText ==
    (mobj_text \in CanonicalTexts /\ Assembled /\ mobj_formatted.some) =>
        /\ mobj_formatted.val.ok
        /\ mobj_formatted.val.val = mobj_text

\* C16: when a string assembles to a command, the formatted command
\* assembles again, to the same instruction word, dst and src
C16_ReassembleSameEncoding ==
    (Assembled /\ mobj_formatted.some) =>
        /\ mobj_formatted.val.ok
        /\ Reassembled =>
               /\ mobj_reassembled.val.ok
               /\ mobj_reassembled.val.val = mobj_cmd.val.val

\* a set_stream whose operands the encoding cannot keep apart was
\* assembled, formatted to another text and assembled again
C16_Witness ==
    /\ mobj_text = "set_stream PSR3, r1, enabled, none, 4"
    /\ Reassembled
    /\ mobj_formatted.val.val = "set_stream r3, r1, enabled, none, r4"
    /\ mobj_reassembled.val.ok


\* the operands of the one-operand strings: the prefix, the number, and
\* what the documented limits (u32, 0..=4095, 0..=127) make of the number
OperandFacts ==
    {[prefix |-> "r", number |-> "1", outcome |-> "ok"],
     [prefix |-> "r", number |-> "4095", outcome |-> "ok"],
     [prefix |-> "r", number |-> "4096", outcome |-> "GprOutOfRange"],
     [prefix |-> "PSR", number |-> "1", outcome |-> "ok"],
     [prefix |-> "PSR", number |-> "127", outcome |-> "ok"],
     [prefix |-> "PSR", number |-> "128", outcome |-> "PsrOutOfRange"],
     [prefix |-> "", number |-> "16", outcome |-> "ok"],
     [prefix |-> "", number |-> "4294967295", outcome |-> "ok"],
     [prefix |-> "", number |-> "4294967296", outcome |-> "U32OutOfRange"],
     [prefix |-> "", number |-> "999999999999", outcome |-> "U32OutOfRange"]}

OperandText(m, f) == m \o " " \o f.prefix \o f.number

\* the range of the operand of a one-operand string, and of its number
OperandRange(m, f) == <<Len(m) + 1, Len(OperandText(m, f))>>

NumberRange(m, f) == <<Len(m) + 1 + Len(f.prefix), Len(OperandText(m, f))>>

\* what C17 says of a one-operand string whose error is at the given range
OutOfRangeAt(m, f, range) ==
    (mobj_text = OperandText(m, f) /\ mobj_cmd.some) =>
        IF f.outcome = "ok"
        THEN /\ mobj_cmd.val.ok
             /\ mobj_formatted.some =>
                    mobj_formatted.val.ok /\ mobj_formatted.val.val = mobj_text
        ELSE /\ ~mobj_cmd.val.ok
             /\ mobj_cmd.val.err = [range |-> range, error_type |-> f.outcome]

OperandKind(text) ==
    CASE text = "none" -> "none"
      [] text \in {"r1", "PSR3", "r3"} -> "register"
      [] text \in {"2", "4097", "4"} -> "immediate"

Mismatch(a, b) == {OperandKind(a), OperandKind(b)} = {"register", "immediate"}

SetStreamInputs ==
    SetStreams \X {"enabled", "disabled"} \X AudioPgOperands \X AudioPgOperands
    \X IgAngleOperands \X IgAngleOperands

SetStreamTextOf ==
    [q \in SetStreamInputs |-> SetStreamText(q[1], q[3], q[4], q[2], q[5], q[6])]

SetStreamInputOf ==
    [t \in SetStreamTexts |-> CHOOSE q \in SetStreamInputs : SetStreamTextOf[q] = t]

\* the ranges of the audio/PG pair and of the IG/angle pair in the string
AudioPgRange(q) ==
    <<Len(q[1]) + 1, Len(q[1]) + 1 + Len(q[3]) + 2 + Len(q[4])>>

IgAngleRange(q) ==
    <<AudioPgRange(q)[2] + 2 + Len(q[2]) + 2, Len(SetStreamTextOf[q])>>

SetStreamMismatch(range) ==
    [range |-> range, error_type |-> "SetStreamOperandTypeMismatch"]

\* C18: set_stream and set_stream_ss fail with SetStreamOperandTypeMismatch
\* exactly when a pair has both operands present, one an immediate and the
\* other a register; the audio/PG pair is checked first and the range of
\* the error spans the offending pair
C18_MismatchExactly ==
    (mobj_text \in SetStreamTexts /\ mobj_cmd.some) =>
        LET q == SetStreamInputOf[mobj_text] IN
            CASE Mismatch(q[3], q[4]) ->
                     /\ ~mobj_cmd.val.ok
                     /\ mobj_cmd.val.err = SetStreamMismatch(AudioPgRange(q))
              [] ~Mismatch(q[3], q[4]) /\ Mismatch(q[5], q[6]) ->
                     /\ ~mobj_cmd.val.ok
                     /\ mobj_cmd.val.err = SetStreamMismatch(IgAngleRange(q))
              [] OTHER -> mobj_cmd.val.ok

\* a string whose pairs both mix an immediate and a register was refused
\* at its audio/PG pair
C18_Witness ==
    /\ mobj_text = "set_stream r1, 2, enabled, r3, 4"
    /\ mobj_cmd.some
    /\ ~mobj_cmd.val.ok
    /\ mobj_cmd.val.err = SetStreamMismatch(<<11, 16>>)

\* a string whose audio/PG pair has an absent operand and whose IG/angle
\* pair is mixed was refused at its IG/angle pair
C18_WitnessSecondPair ==
    /\ mobj_text = "set_stream none, 2, enabled, r3, 4"
    /\ mobj_cmd.some
    /\ ~mobj_cmd.val.ok
    /\ mobj_cmd.val.err = SetStreamMismatch(<<29, 34>>)


(***************************************************************************)
(* C21.  A call for a packet on PID P leaves the entry of every other PID  *)
(* as it was, and what it returns and leaves for P is what a parser        *)
(* holding P's entry alone returns and leaves: the units of two PIDs do    *)
(* not see each other's packets.                                           *)
(***************************************************************************)
OnlyPid(map, pid) == [q \in DOMAIN map \cap {pid} |-> map[q]]

OtherPids(map, pid) == [q \in DOMAIN map \ {pid} |-> map[q]]

PsiCompleted ==
    /\ ReachedPayload /\ ~Hdr.pusi /\ Hdr.pid \in DOMAIN pending_before
    /\ pending_before[Hdr.pid].unit.kind = "Psi"
    /\ Hdr.pid \notin DOMAIN pending_payload_units
    /\ ~IsPanic(result)

\* C22: a PAT update never removes or alters a pending entry, and a section
\* started on a PID that was known and completed after a PAT dropped the
\* PID is still CRC-checked and surfaced as Payload::Psi, with data Raw
C22_KnownPidsAtCompletion ==
    /\ (Called /\ ~IsPanic(result) /\ known_pmt_pids # known_before) =>
           /\ IsPayload("Psi") /\ ThePayload.data.variant = "Pat"
           /\ OtherPids(pending_payload_units, Hdr.pid)
                  = OtherPids(pending_before, Hdr.pid)
    /\ (PsiCompleted /\ Hdr.pid # 0 /\ Hdr.pid \notin known_before) =>
           \/ IsError("PsiCrcMismatch")
           \/ IsPayload("Psi") /\ ThePayload.data.variant = "Raw"
    /\ (PsiCompleted /\ Hdr.pid # 0 /\ Hdr.pid \in known_before
        /\ ~pending_before[Hdr.pid].unit.header.private_bit) =>
           \/ ~result.ok
           \/ IsPayload("Psi") /\ ThePayload.data.variant = "Pmt"

\* a section that started on a PID while it was known completes with a
\* valid CRC after a PAT dropped the PID
C22_Witness ==
    /\ PsiCompleted /\ Hdr.pid = PidA /\ PidA \notin known_before
    /\ IsPayload("Psi") /\ ThePayload.data.variant = "Raw"


(***************************************************************************)
(* C23.  The data of a surfaced PSI section: Raw for a private section,    *)
(* else Pat on PID 0 with table_id 0, else Pmt on a known PID, else Raw.   *)
(* A section whose CRC matches and that is not surfaced is one the Pmt     *)
(* case could not decode.                                                  *)
(***************************************************************************)
PsiVariant(header, pid, known) ==
    CASE header.private_bit -> "Raw"
      [] ~header.private_bit /\ pid = 0 /\ header.table_id = 0 -> "Pat"
      [] ~header.private_bit /\ ~(pid = 0 /\ header.table_id = 0) /\ pid \in known -> "Pmt"
      [] OTHER -> "Raw"

\* C23: the data variant of a CRC-valid section is chosen in the order
\* private, PAT, PMT, raw, and known_pmt_pids changes in the Pat case only
C23_VariantOrder ==
    /\ (Called /\ IsPayload("Psi")) =>
           /\ ThePayload.data.variant = PsiVariant(ThePayload.header, Hdr.pid, known_before)
           /\ ThePayload.data.variant # "Pat" => known_pmt_pids = known_before
    /\ (Called /\ ~IsPanic(result) /\ ~IsPayload("Psi")) => known_pmt_pids = known_before
    /\ (PsiCompleted /\ ~result.ok /\ ~IsError("PsiCrcMismatch")) =>
           PsiVariant(pending_before[Hdr.pid].unit.header, Hdr.pid, known_before) = "Pmt"

\* a private section on PID 0 with table_id 0 and an entry in it is
\* surfaced Raw and leaves the known PIDs as they were
C23_Witness ==
    /\ Called /\ IsPayload("Psi") /\ Hdr.pid = 0
    /\ ThePayload.header.private_bit /\ ThePayload.header.table_id = 0
    /\ ThePayload.data.variant = "Raw"
    /\ known_before # {} /\ known_pmt_pids = known_before

(***************************************************************************)
(* Claims about the segments of a PG unit.                                 *)
(***************************************************************************)
\* the first segment of the unit: type, length and as many bytes as the
\* length field says
SegmentEnd(data) == 3 + from_be_bytes(SubSeq(data, 2, 3))

HasFirstSegment(data) == Len(data) >= 3 /\ SegmentEnd(data) <= Len(data)

FirstSegment(data) == SubSeq(data, 1, SegmentEnd(data))

AfterFirstSegment(data) == SubSeq(data, SegmentEnd(data) + 1, Len(data))

\* decoding every segment of the unit in order, stopping at the first error
RECURSIVE DecodeSegments(_, _)
DecodeSegments(data, storage) ==
    LET r == PgSegmentData_finish(FirstSegment(data), storage)
    IN  IF ~r.ret.ok \/ AfterFirstSegment(data) = << >> THEN r
        ELSE IF ~HasFirstSegment(AfterFirstSegment(data))
        THEN PgSegmentData_finish(AfterFirstSegment(data), r.storage)
        ELSE DecodeSegments(AfterFirstSegment(data), r.storage)

\* C24 as stated: when a PG unit finishes, every segment its payload holds
\* is decoded, in order, until the payload is exhausted, so the fragment
\* buffers are those left by the last of its segments
C24_EverySegmentDecoded ==
    (PgCalled /\ HasFirstSegment(pg_data)) =>
        app_parser_storage = DecodeSegments(pg_data, storage_before).storage

\* C24: when a PG unit finishes, its payload is parsed as one segment: the
\* segment (1-byte type, 2-byte length, body) at the start of the payload
\* is decoded, and the bytes after it are not read
C24_FirstSegmentDecoded ==
    (PgCalled /\ HasFirstSegment(pg_data)) =>
        /\ PgRet(pg_result, app_parser_storage)
               = PgSegmentData_finish(FirstSegment(pg_data), storage_before)
        /\ pg_result.ok => pg_result.val.obj \in {"PgsObject", "PgsIgComposition"}

\* a unit of a whole object and the first fragment of another object was
\* finished: the object is returned, no buffer is stored for the fragment
C24_Witness ==
    /\ PgCalled /\ pg_data \in PgTwoSegmentUnits
    /\ AfterFirstSegment(pg_data) # <<0>>
    /\ pg_result.ok /\ pg_result.val.id = 1 /\ pg_result.val.data.some
    /\ <<2, 0>> \notin DOMAIN app_parser_storage.pending_obj_segments
    /\ storage_before.pending_obj_segments # EmptyMap

(***************************************************************************)
(* Claims about the fragment buffers.                                      *)
(***************************************************************************)
\* the first bytes of a sequence, as many as n at most
Truncated(bytes, n) == SubSeq(bytes, 1, Min(Len(bytes), n))

\* every stored buffer holds the bytes fed since its key's (1,0) fragment,
\* cut at the length that fragment announced
BuffersWithinLength ==
    /\ \A k \in DOMAIN app_parser_storage.pending_obj_segments :
           /\ <<"obj", k>> \in DOMAIN pg_fed
           /\ app_parser_storage.pending_obj_segments[k].bytes
                  = Truncated(pg_fed[<<"obj", k>>].bytes, pg_fed[<<"obj", k>>].length)
    /\ \A k \in DOMAIN app_parser_storage.pending_ig_segments :
           /\ <<"ig", k>> \in DOMAIN pg_fed
           /\ app_parser_storage.pending_ig_segments[k].bytes
                  = Truncated(pg_fed[<<"ig", k>>].bytes, pg_fed[<<"ig", k>>].length)

\* the last unit is a (1,0) fragment; its length field and its payload
ObjFirstOfMany == IsObjFragment /\ ObjSequence.first_in_seq /\ ~ObjSequence.last_in_seq

IgFirstOfMany == IsIgFragment /\ IgSequence.first_in_seq /\ ~IgSequence.last_in_seq

ObjAnnounced == from_be_bytes(SubSeq(pg_data, 8, 10))

IgAnnounced == from_be_bytes(SubSeq(pg_data, 13, 15))

\* C25: each buffer in the fragment maps holds at most as many bytes as its
\* first fragment declared, the excess being dropped; a (1,0) fragment on a
\* key that has a buffer replaces that buffer; a (0,1) fragment removes the
\* key from the map whether or not the reassembled payload then parses
C25_FragmentBuffers ==
    /\ BuffersWithinLength
    /\ (ObjFirstOfMany /\ Len(pg_data) >= 10) =>
           app_parser_storage.pending_obj_segments[ObjKey].bytes
               = Truncated(SubSeq(pg_data, 11, Len(pg_data)), ObjAnnounced)
    /\ (IgFirstOfMany /\ Len(pg_data) >= 15) =>
           app_parser_storage.pending_ig_segments[IgKey].bytes
               = Truncated(SubSeq(pg_data, 16, Len(pg_data)), IgAnnounced)
    /\ (IsObjFragment /\ ~ObjSequence.first_in_seq /\ ObjSequence.last_in_seq) =>
           app_parser_storage.pending_obj_segments
               = remove(storage_before.pending_obj_segments, ObjKey)
    /\ (IsIgFragment /\ ~IgSequence.first_in_seq /\ IgSequence.last_in_seq) =>
           app_parser_storage.pending_ig_segments
               = remove(storage_before.pending_ig_segments, IgKey)

\* a (0,1) fragment found its key's buffer, the reassembled object data did
\* not parse, and the key is gone
C25_Witness ==
    /\ IsObjFragment /\ ~ObjSequence.first_in_seq /\ ObjSequence.last_in_seq
    /\ ObjKey \in DOMAIN storage_before.pending_obj_segments
    /\ ~pg_result.ok
    /\ ObjKey \notin DOMAIN app_parser_storage.pending_obj_segments

\* a (1,0) fragment replaced a buffer that held bytes
C25_WitnessReplaced ==
    /\ ObjFirstOfMany
    /\ ObjKey \in DOMAIN storage_before.pending_obj_segments
    /\ Len(storage_before.pending_obj_segments[ObjKey].bytes) >= 3
    /\ Len(app_parser_storage.pending_obj_segments[ObjKey].bytes) < 3

\* a buffer is full and bytes fed to it were dropped
C25_WitnessDropped ==
    \E k \in DOMAIN app_parser_storage.pending_ig_segments :
        /\ <<"ig", k>> \in DOMAIN pg_fed
        /\ Len(pg_fed[<<"ig", k>>].bytes) > pg_fed[<<"ig", k>>].length
        /\ Len(app_parser_storage.pending_ig_segments[k].bytes) = pg_fed[<<"ig", k>>].length

(***************************************************************************)
(* Claims about the slots of set_stream.                                   *)
(***************************************************************************)
\* the present operands of the four slots are within the 12 bits of a slot
SlotsInRange(q) == "4097" \notin {q[3], q[4], q[5], q[6]}

\* C26: a set_stream or set_stream_ss that assembles, with present values in
\* 0..=4095 (0..=127 for a PSR), is formatted with every present slot of the
\* kind (rN, PSRN, immediate N) and the value it was assembled from, every
\* absent slot as none and the flag as given: the canonical string comes back
C26_SlotsRendered ==
    (mobj_text \in SetStreamTexts /\ Assembled /\ mobj_formatted.some) =>
        \/ ~SlotsInRange(SetStreamInputOf[mobj_text])
        \/ /\ mobj_formatted.val.ok
           /\ mobj_formatted.val.val = mobj_text

(***************************************************************************)
(* Claims about the bytecode parser.                                       *)
(***************************************************************************)
CmdParsed == cmd_parsed.some /\ Len(cmd_bytes) >= 12

\* the fields of the instruction word of the bytes
Word == MObjInstruction_from_bytes(cmd_bytes)

\* the taxonomy: the opcodes an instruction word can name
NamesOpcode(w) ==
    \/ w.grp = 0 /\ w.sub_grp = 0 /\ w.branch_opt \in 0..2
    \/ w.grp = 0 /\ w.sub_grp = 1 /\ w.branch_opt \in 0..4
    \/ w.grp = 0 /\ w.sub_grp = 2 /\ w.branch_opt \in 0..5
    \/ w.grp = 1 /\ w.cmp_opt \in 1..7
    \/ w.grp = 2 /\ w.sub_grp = 0 /\ w.set_opt \in 1..15
    \/ w.grp = 2 /\ w.sub_grp = 1 /\ w.set_opt \in (1..11) \cup {16}

\* the first field no enum knows, in the order group, sub-group, option
FirstUnknown(w) ==
    CASE w.grp \notin 0..2 -> MObjCmdErrorDetails("UnknownMObjGroup", w.grp)
      [] w.grp = 0 /\ w.sub_grp \notin 0..2 ->
             MObjCmdErrorDetails("UnknownBranchSubGroup", w.sub_grp)
      [] w.grp = 2 /\ w.sub_grp \notin 0..1 ->
             MObjCmdErrorDetails("UnknownSetSubGroup", w.sub_grp)
      [] w.grp = 0 /\ w.sub_grp = 0 ->
             MObjCmdErrorDetails("UnknownGotoInstruction", w.branch_opt)
      [] w.grp = 0 /\ w.sub_grp = 1 ->
             MObjCmdErrorDetails("UnknownJumpInstruction", w.branch_opt)
      [] w.grp = 0 /\ w.sub_grp = 2 ->
             MObjCmdErrorDetails("UnknownPlayInstruction", w.branch_opt)
      [] w.grp = 1 -> MObjCmdErrorDetails("UnknownCmpInstruction", w.cmp_opt)
      [] w.grp = 2 /\ w.sub_grp = 0 ->
             MObjCmdErrorDetails("UnknownSetInstruction", w.set_opt)
      [] w.grp = 2 /\ w.sub_grp = 1 ->
             MObjCmdErrorDetails("UnknownSetSystemInstruction", w.set_opt)

\* C27: MObjCmd::parse consumes 12 bytes and succeeds exactly when the
\* instruction word names an opcode of the taxonomy; otherwise it fails
\* with the Unknown* error of the first unrecognised field in the order
\* group, sub-group, option; every command it returns formats without error
C27_ParseTaxonomy ==
    CmdParsed =>
        /\ cmd_parsed.val.reader.location = 12
        /\ cmd_parsed.val.reader.slice = SubSeq(cmd_bytes, 13, Len(cmd_bytes))
        /\ cmd_parsed.val.ok <=> NamesOpcode(Word)
        /\ cmd_parsed.val.ok =>
               /\ cmd_parsed.val.val.inst = Word
               /\ cmd_formatted.some => cmd_formatted.val.ok
        /\ ~cmd_parsed.val.ok =>
               /\ cmd_parsed.val.err.details = "BadMObjCommand"
               /\ cmd_parsed.val.err.arg = FirstUnknown(Word)

\* a compare with an option of the enum and a sub-group no enum knows was
\* parsed and formatted
C27_Witness ==
    /\ CmdParsed /\ cmd_parsed.val.ok
    /\ Word.grp = 1 /\ Word.sub_grp = 7 /\ Word.cmp_opt = 7
    /\ cmd_formatted.some /\ cmd_formatted.val.ok

\* a set word with an unknown sub-group and an unknown option was refused
\* for its sub-group
C27_WitnessRefused ==
    /\ CmdParsed /\ ~cmd_parsed.val.ok
    /\ Word.grp = 2 /\ Word.sub_grp = 5 /\ Word.set_opt = 31
    /\ cmd_parsed.val.err.arg = MObjCmdErrorDetails("UnknownSetSubGroup", 5)

(***************************************************************************)
(* Claims about the adaptation field.                                      *)
(***************************************************************************)
\* the call read the adaptation field: the sync byte is good, the PID is
\* not the null PID and the header flags the field
AfRead ==
    /\ Called
    /\ Hdr.sync_byte = 71
    /\ Hdr.pid # PidNull
    /\ Hdr.has_adaptation_field

\* the length byte, and the bytes of the field behind the flag byte
AfLength == packet[5]

AfFlags == AdaptationFieldHeader(SubSeq(packet, 5, 6))

\* the field lies inside the packet, as every field of a valid length does
\* in a packet of 188 bytes
AfFits == AfLength + 5 <= Len(packet)

\* a flagged PCR, or a flagged OPCR behind it, has fewer than 6 bytes left
\* inside the field
AfShort ==
    \/ AfFlags.has_pcr /\ AfLength - 1 < 6
    \/ AfFlags.has_opcr /\ AfLength - 1 - (IF AfFlags.has_pcr THEN 6 ELSE 0) < 6

\* read_payload on the bytes that follow the field
AfterField ==
    read_payload(Parser(App, pending_before, known_before), Hdr.pusi, Hdr.pid,
                 [slice |-> SubSeq(packet, AfLength + 6, Len(packet)),
                  location |-> AfLength + 5])

\* C28: when the adaptation field is read, parse fails with
\* BadAdaptationHeader when the length byte is outside 1..=183 or when a
\* flagged PCR (respectively OPCR) has fewer than 6 bytes left inside the
\* field; otherwise the payload is classified from the byte that lies
\* length + 1 bytes behind the 4-byte header, whichever sub-fields are
\* flagged or left unparsed
C28_AdaptationField ==
    /\ (AfRead /\ ~(AfLength >= 1 /\ AfLength <= 183)) =>
           IsError("BadAdaptationHeader")
    /\ (AfRead /\ AfLength >= 1 /\ AfFits /\ AfShort) =>
           IsError("BadAdaptationHeader")
    /\ (AfRead /\ AfLength >= 1 /\ AfFits /\ ~AfShort) =>
           /\ ~IsError("BadAdaptationHeader")
           /\ Hdr.has_payload =>
                  /\ pending_payload_units = AfterField.P.pending_payload_units
                  /\ IF AfterField.ret.ok
                     THEN result.ok /\ result.val.payload = Some(AfterField.ret.val)
                     ELSE result = AfterField.ret
           /\ ~Hdr.has_payload => result.ok /\ result.val.payload = None

\* a packet whose field holds a PCR and an OPCR: the four bytes behind
\* the field are its payload
C28_Witness ==
    /\ AfRead /\ AfFits /\ ~AfShort
    /\ AfFlags.has_pcr /\ AfFlags.has_opcr
    /\ result.ok /\ result.val.adaptation_field.val.opcr.some
    /\ IsPayload("Raw")
    /\ ThePayload.reader = [slice |-> <<1, 2, 3, 4>>, location |-> TsPacketLen - 4]
    /\ Hdr.pid \in DOMAIN pending_before

\* a packet with an adaptation field carried on the unit pending on its PID
C28_WitnessContinued ==
    /\ AfRead /\ AfFits /\ ~AfShort /\ ~Hdr.pusi
    /\ Hdr.pid \in DOMAIN pending_before
    /\ IsPayload("Pes")

\* a field that ends inside its OPCR, behind a PCR that was read
C28_WitnessShort ==
    /\ AfRead /\ AfFits /\ AfFlags.has_pcr /\ AfLength - 1 >= 6 /\ AfShort
    /\ IsError("BadAdaptationHeader")

\* sub-fields the parser does not read are flagged and a unit started
C28_WitnessUnparsed ==
    /\ AfRead /\ AfFits /\ ~AfShort /\ AfFlags.has_splice_countdown
    /\ IsPayload("Pes")

(***************************************************************************)
(* Claims about the completion of a unit.                                  *)
(***************************************************************************)
\* the call started a unit that is left pending
UnitStarted ==
    /\ ReachedPayload /\ Hdr.pusi /\ ~IsPanic(result)
    /\ Hdr.pid \in DOMAIN pending_payload_units

\* the length the first packet of the started unit declares: the
\* section_length of the PSI header behind the pointer field, the
\* packet_length of the PES header
DeclaredLength ==
    IF pending_payload_units[Hdr.pid].unit.kind = "Psi"
    THEN PsiHeader(SubSeq(PayloadBytes, PayloadBytes[1] + 2, PayloadBytes[1] + 4)).section_length
    ELSE from_be_bytes(SubSeq(PayloadBytes, 5, 6))

\* a packet without PUSI carried at least one payload byte to the unit
\* pending on its PID
UnitContinued ==
    /\ ReachedPayload /\ ~Hdr.pusi /\ ~IsPanic(result)
    /\ Hdr.pid \in DOMAIN pending_before
    /\ Len(PayloadBytes) >= 1

\* C29: a unit of declared length L that only receives packets without
\* PUSI, each with at least one payload byte, completes after at most L of
\* them: its entry is removed and a Psi, a Pes or an error is returned.
\* Such a packet may carry a single byte, so this is: a started unit lacks
\* at most L bytes, and every such packet removes the entry or leaves it
\* lacking fewer bytes than before
C29_CompletesWithinLength ==
    /\ UnitStarted => pending_payload_units[Hdr.pid].remaining <= DeclaredLength
    /\ UnitContinued =>
           IF Hdr.pid \in DOMAIN pending_payload_units
           THEN pending_payload_units[Hdr.pid].remaining
                    < pending_before[Hdr.pid].remaining
           ELSE ~result.ok \/ IsPayload("Psi") \/ IsPayload("Pes")

(***************************************************************************)
(* Claims about the slice readers.                                         *)
(***************************************************************************)
\* the reader the last call was made on, before and after the call
CalledBefore == IF rd_call.val.on = "parent" THEN rd_parent_before.val ELSE rd_sub_before.val

CalledAfter == IF rd_call.val.on = "parent" THEN rd_parent.val ELSE rd_sub.val

\* the bytes of the slice between two absolute offsets
BytesBetween(from, to) == SubSeq(ReaderBytes, from + 1, to)

\* C30: new_sub_reader(n) returns a view of exactly the next n bytes of
\* its parent, based at the parent's offset, and advances the parent by n;
\* a read, skip or peek of more bytes than a reader has left fails with
\* PacketOverrun(requested length) at that reader's current absolute offset
\* and leaves its position and its remaining bytes unchanged, also when the
\* parent has bytes beyond the sub-view; new_sub_reader(n) with n above the
\* parent's remaining bytes fails without advancing the parent
C30_SubReaderBounds ==
    rd_call.some =>
        /\ (rd_call.val.op = "new_sub_reader"
            /\ rd_call.val.length <= Len(rd_parent_before.val.slice)) =>
               /\ rd_ret.val.ok
               /\ rd_sub.val.location = rd_parent_before.val.location
               /\ rd_sub.val.slice
                      = BytesBetween(rd_parent_before.val.location,
                                     rd_parent_before.val.location + rd_call.val.length)
               /\ rd_parent.val.location
                      = rd_parent_before.val.location + rd_call.val.length
               /\ rd_parent.val.slice
                      = BytesBetween(rd_parent.val.location, MaxReaderLen)
        /\ rd_call.val.length > Len(CalledBefore.slice) =>
               /\ rd_ret.val = Err(MkError(CalledBefore.location, "PacketOverrun",
                                           rd_call.val.length))
               /\ rd_parent = rd_parent_before
               /\ rd_sub = rd_sub_before
        /\ rd_sub.some =>
               /\ rd_sub.val.location + Len(rd_sub.val.slice) <= rd_parent.val.location
               /\ rd_sub.val.slice
                      = BytesBetween(rd_sub.val.location,
                                     rd_sub.val.location + Len(rd_sub.val.slice))

\* a read on a sub-view that was read in part asked for more than the
\* view has left and no more than the parent has left: it failed at the
\* view's current offset and left the view as it was
C30_Witness ==
    /\ rd_call.some /\ rd_call.val.op = "read" /\ rd_call.val.on = "sub"
    /\ rd_call.val.length > Len(rd_sub_before.val.slice)
    /\ rd_call.val.length <= Len(rd_parent_before.val.slice)
    /\ Len(rd_sub.val.slice) >= 1
    /\ rd_sub.val.location >= 1
    /\ rd_ret.val = Err(MkError(rd_sub.val.location, "PacketOverrun", rd_call.val.length))
    /\ rd_sub = rd_sub_before

\* new_sub_reader asked for more than the parent has left
C30_WitnessParent ==
    /\ rd_call.some /\ rd_call.val.op = "new_sub_reader"
    /\ rd_call.val.length > Len(rd_parent_before.val.slice)
    /\ Len(rd_parent_before.val.slice) >= 1
    /\ ~rd_ret.val.ok /\ rd_parent = rd_parent_before

====
